---- MODULE Spec2Model ----
(***************************************************************************)
(* A model of the SPORC corpus engine: the Episode domain object and its   *)
(* sliding windows (sporc/episode.py), the Parquet query backend and its   *)
(* caches (sporc/parquet_backend.py) and the ingest script                 *)
(* (scripts/convert_to_parquet.py).  Each subsystem has its own            *)
(* specification over the variables it owns; the variables of the other    *)
(* subsystems stay at their initial value.                                 *)
(***************************************************************************)
EXTENDS Integers, Sequences, FiniteSets, TLC

(* ---------------------------------------------------------------------- *)
(* Bounds of the model.                                                    *)
(* ---------------------------------------------------------------------- *)
MaxTurns == 7
MaxWindow == 4
MaxRows == 3
MaxAccess == 2
NThreads == 2
MaxContent == 2
MaxStat == 1
MaxConstructs == 3
MaxEpisodeRecs == 3
MaxTurnRecs == 3
MaxThreshold == 2
MaxPodcasts == 2
MaxCategoryRows == 2
MaxEpisodes == 2
MaxText == 4
MaxContext == 2
MaxSpokenTurns == 2
MaxOccurrence == 3
MaxPartitions == 3
MaxMetricRows == 3
MaxRangeTurns == 2

None == "None"

\* An optional integer argument: <<>> when the caller leaves it out.
Absent == <<>>
Given(i) == <<i>>

VARIABLES
    ep_turns,          \* Episode._turns: the turns, as turn ids, in list order
    ep_turns_loaded,   \* Episode._turns_loaded
    sw,                \* the frame of one sliding_window generator
    sw_windows,        \* the TurnWindow objects it has yielded so far
    store_rows,        \* the rows of turns/podcast_id=<id>/text.parquet, in file order
    ep_state,          \* "none", or "built" once an object builder returned the Episode
    ep_turn_loader,    \* whether the builder set episode._turn_loader
    ep_built_lazy,     \* whether the builder was called with include_turns = False
    partition_reads,   \* how often the turn partition has been read
    access,            \* the reads of the property episode.turns so far
    handle,            \* per lazy resource: 0 (None) or the id of the loaded object
    loads,             \* per lazy resource: how often it has been read from disk
    index_file,        \* per index resource: whether its file exists on disk
    thread,            \* per calling thread: where it is inside an _ensure_* method
    meta_files,        \* the metadata Parquet files: their content and their stat
    cache_file,        \* metadata/_index_cache.pkl
    backend,           \* the ParquetBackend most recently constructed
    fp_history,        \* every (stat, content) the metadata files have had
    fs,                \* what <root>, <root>.tmp and <root>.old hold
    cv,                \* the frame of convert_to_parquet.main
    md5,               \* the digest hashlib.md5 gives each URL
    p1,                \* the frame and the output files of phase1_episodes
    p2,                \* the frame and the output files of phase2_turns
    lk,                \* the catalogs, the lookup maps built from them, the last lookup
    call               \* the last call of a query that changes no state: op, data, args, result

episodeVars == <<ep_turns, ep_turns_loaded>>
windowVars == <<sw, sw_windows>>
builderVars == <<store_rows, ep_state, ep_turn_loader, ep_built_lazy,
                 partition_reads, access>>

lazyVars == <<handle, loads, index_file, thread>>
cacheVars == <<meta_files, cache_file, backend, fp_history>>
convertVars == <<fs, cv>>
ingestVars == <<md5, p1, p2>>
queryVars == <<lk, call>>

\* The variables outside the Episode, its windows and its builder.
episodeOthers == <<lazyVars, cacheVars, convertVars, ingestVars, queryVars>>

\* The variables outside the backend's lazily loaded resources.
lazyOthers == <<episodeVars, windowVars, builderVars, cacheVars, convertVars,
                ingestVars, queryVars>>

\* The variables outside the backend's index cache.
cacheOthers == <<episodeVars, windowVars, builderVars, lazyVars, convertVars,
                 ingestVars, queryVars>>

\* The variables outside the run of the ingest script.
convertOthers == <<episodeVars, windowVars, builderVars, lazyVars, cacheVars,
                   ingestVars, queryVars>>

\* The variables outside the two streaming passes of the ingest script.
ingestOthers == <<episodeVars, windowVars, builderVars, lazyVars, cacheVars,
                  convertVars, queryVars>>

\* The variables outside the backend's catalog lookups.
lookupOthers == <<episodeVars, windowVars, builderVars, lazyVars, cacheVars,
                  convertVars, ingestVars, call>>

\* The variables a query that changes no state leaves alone.
callOthers == <<episodeVars, windowVars, builderVars, lazyVars, cacheVars,
                convertVars, ingestVars, lk>>

vars == <<ep_turns, ep_turns_loaded, sw, sw_windows,
          store_rows, ep_state, ep_turn_loader, ep_built_lazy,
          partition_reads, access,
          handle, loads, index_file, thread,
          meta_files, cache_file, backend, fp_history,
          fs, cv,
          md5, p1, p2,
          lk, call>>

(* ---------------------------------------------------------------------- *)
(* Helpers.                                                                *)
(* ---------------------------------------------------------------------- *)
Min(a, b) == IF a <= b THEN a ELSE b
Max(a, b) == IF a >= b THEN a ELSE b

\* Python's floor division a // b for b > 0 (a may be negative).
FloorDiv(a, b) == IF a >= 0 THEN a \div b ELSE -((-a + b - 1) \div b)

\* ceil(a / b) for b > 0.
CeilDiv(a, b) == -FloorDiv(-a, b)

\* Python's list slice xs[lo:hi] for 0 <= lo, with 0-based bounds.
Slice(xs, lo, hi) == SubSeq(xs, lo + 1, Min(hi, Len(xs)))

RECURSIVE Concat(_)
Concat(ss) == IF ss = <<>> THEN <<>> ELSE Head(ss) \o Concat(Tail(ss))

Range(xs) == {xs[i] : i \in 1..Len(xs)}

NoDuplicates(xs) == \A i, j \in 1..Len(xs) : i # j => xs[i] # xs[j]

\* The turn list of an episode with n turns, ordered by start time: turn k
\* stands for the k-th turn.
TurnList(n) == [k \in 1..n |-> k]

(* ---------------------------------------------------------------------- *)
(* TurnWindow (episode.py).                                                *)
(* ---------------------------------------------------------------------- *)
TurnWindow(turns, window_index, start_index, end_index, total_windows, overlap_size) ==
    [turns |-> turns, window_index |-> window_index, start_index |-> start_index,
     end_index |-> end_index, total_windows |-> total_windows,
     overlap_size |-> overlap_size]

\* A property no window has.
is_no_window(win) == FALSE

is_first(win) == win.window_index = 0

is_last(win) == win.window_index = win.total_windows - 1

overlap_turns(win) ==
    IF win.overlap_size > 0 /\ ~is_first(win)
    THEN Slice(win.turns, 0, win.overlap_size)
    ELSE <<>>

\* A new_turns that forgets to drop the overlapping head of the window.
new_turns_keep_overlap(win) == win.turns

new_turns(win) ==
    IF win.overlap_size > 0 /\ ~is_first(win)
    THEN Slice(win.turns, win.overlap_size, Len(win.turns))
    ELSE win.turns

(* ---------------------------------------------------------------------- *)
(* Episode.load_turns and Episode.sliding_window (episode.py).             *)
(* ---------------------------------------------------------------------- *)
SwIdle == [pc |-> "idle", window_size |-> 0, overlap |-> 0,
           arg_start |-> Absent, arg_end |-> Absent,
           start_index |-> 0, end_index |-> 0, step_size |-> 0,
           total_windows |-> 0, window_index |-> 0, error |-> None]

\* Episode.load_turns(turns_data): the matching turns, sorted by start time.
LoadTurns(n) ==
    /\ sw.pc = "idle"
    /\ ~ep_turns_loaded
    /\ ep_turns' = TurnList(n)
    /\ ep_turns_loaded' = TRUE
    /\ UNCHANGED <<windowVars, builderVars, episodeOthers>>

\* The number of windows computed with a ceiling instead of a floor.
total_windows_ceil(total_turns, window_size, step_size) ==
    IF total_turns <= window_size THEN 1
    ELSE CeilDiv(total_turns - window_size, step_size) + 1

\* "Calculate how many complete windows we can fit".
total_windows_of(total_turns, window_size, step_size) ==
    IF total_turns <= window_size THEN 1
    ELSE FloorDiv(total_turns - window_size, step_size) + 1

SwRaise(window_size, overlap, start_index, end_index, kind) ==
    sw' = [SwIdle EXCEPT !.pc = "error", !.error = kind,
                         !.window_size = window_size, !.overlap = overlap,
                         !.arg_start = start_index, !.arg_end = end_index]

\* The generator body up to its first yield: the checks, the defaults and
\* the window count.
SlidingWindowStart(window_size, overlap, start_index, end_index) ==
    /\ sw.pc = "idle"
    /\ UNCHANGED <<episodeVars, sw_windows, builderVars, episodeOthers>>
    /\ LET si == IF start_index = Absent THEN 0 ELSE start_index[1]
           ei == IF end_index = Absent THEN Len(ep_turns) ELSE end_index[1]
           step_size == window_size - overlap
           total_turns == ei - si
       IN  IF ~ep_turns_loaded
           THEN SwRaise(window_size, overlap, start_index, end_index, "RuntimeError")
           ELSE IF \/ window_size <= overlap
                   \/ window_size <= 0
                   \/ overlap < 0
                   \/ si < 0 \/ si >= Len(ep_turns)
                   \/ ei > Len(ep_turns) \/ ei <= si
           THEN SwRaise(window_size, overlap, start_index, end_index, "ValueError")
           ELSE IF total_turns <= 0
           THEN sw' = [SwIdle EXCEPT !.pc = "done",
                                     !.window_size = window_size, !.overlap = overlap,
                                     !.arg_start = start_index, !.arg_end = end_index]
           ELSE sw' = [pc |-> "yielding", window_size |-> window_size,
                       overlap |-> overlap,
                       arg_start |-> start_index, arg_end |-> end_index,
                       start_index |-> si, end_index |-> ei,
                       step_size |-> step_size,
                       total_windows |->
                           total_windows_of(total_turns, window_size, step_size),
                       window_index |-> 0, error |-> None]

\* One iteration of "for window_index in range(total_windows)": build the
\* window and yield it.
SlidingWindowYield ==
    /\ sw.pc = "yielding"
    /\ sw.window_index < sw.total_windows
    /\ LET window_start == sw.start_index + sw.window_index * sw.step_size
           window_end == Min(window_start + sw.window_size, sw.end_index)
           window == TurnWindow(Slice(ep_turns, window_start, window_end),
                                sw.window_index, window_start, window_end,
                                sw.total_windows,
                                IF sw.window_index > 0 THEN sw.overlap ELSE 0)
       IN  sw_windows' = Append(sw_windows, window)
    /\ sw' = [sw EXCEPT !.window_index = @ + 1]
    /\ UNCHANGED <<episodeVars, builderVars, episodeOthers>>

\* The range is exhausted: the generator returns.
SlidingWindowReturn ==
    /\ sw.pc = "yielding"
    /\ sw.window_index >= sw.total_windows
    /\ sw' = [sw EXCEPT !.pc = "done"]
    /\ UNCHANGED <<episodeVars, sw_windows, builderVars, episodeOthers>>

WindowSizes == 0..MaxWindow
Overlaps == -1..(MaxWindow - 1)
StartIndexes == {Absent} \cup {Given(i) : i \in -1..2}
EndIndexes == {Absent} \cup {Given(i) : i \in 0..(MaxTurns + 1)}

\* The state of each subsystem before anything has run on it.
EpisodeFresh == ep_turns = <<>> /\ ep_turns_loaded = FALSE

WindowFresh == sw = SwIdle /\ sw_windows = <<>>

AccessNone == [count |-> 0, first |-> None, last |-> None, value |-> <<>>]

BuilderFresh ==
    /\ store_rows = <<>>
    /\ ep_state = "none"
    /\ ep_turn_loader = FALSE
    /\ ep_built_lazy = FALSE
    /\ partition_reads = 0
    /\ access = AccessNone

\* The lazily loaded resources of a ParquetBackend.
IndexResources == {"speaker_index", "episode_metrics", "search_db"}
FrameResources == {"podcast_df", "episode_df"}
Resources == IndexResources \cup FrameResources
Threads == 1..NThreads

ThreadIdle == [pc |-> "idle", res |-> None, obj |-> 0, raised |-> None]

LazyFresh ==
    /\ handle = [r \in Resources |-> 0]
    /\ loads = [r \in Resources |-> 0]
    /\ index_file = [r \in IndexResources |-> FALSE]
    /\ thread = [t \in Threads |-> ThreadIdle]

CacheAbsent == [kind |-> "absent", version |-> 0, fingerprint |-> <<>>, maps |-> <<>>]

BackendNone == [n |-> 0, maps |-> <<>>, why |-> None]

CacheFresh ==
    /\ meta_files = [content |-> 0, stat |-> 0]
    /\ cache_file = CacheAbsent
    /\ backend = BackendNone
    /\ fp_history = {}

CvStart == [pc |-> "args", skip_turns |-> FALSE, had_store |-> FALSE,
            raised |-> FALSE, caught |-> FALSE, failed_at |-> None,
            exit_code |-> -1]

ConvertFresh ==
    /\ fs = [d \in {"root", "tmp", "old"} |-> "none"]
    /\ cv = CvStart

\* The URLs of the input records, as safe_str returns them: a string is the
\* sequence of its characters.
Mp3Urls == {<<"a">>, <<"b">>}
RssUrls == {<<"r">>, <<"s">>}

\* hashlib.md5(...).hexdigest()[:n] as a function of the URL: one that
\* keeps the URLs apart, and one under which two mp3 URLs and two RSS URLs
\* have the same digest prefix.
Md5Distinct == [u \in Mp3Urls \cup RssUrls |-> u[1]]
Md5Colliding == [u \in Mp3Urls \cup RssUrls |-> IF u \in Mp3Urls THEN "a" ELSE "r"]

podcast_id_from_rss(rss_url) == <<"pid", md5[rss_url]>>

episode_id_from_mp3(mp3_url) == <<"eid", md5[mp3_url]>>

Pids == {<<"pid", d>> : d \in {"r", "s"}}

\* A dict keyed by podcast id; a key the code has not created holds the
\* default.
PidDict(default) == [pid \in Pids |-> default]

\* phase1_episodes before its first record; a file of <<>> does not exist.
P1Start == [pc |-> "stream", stream |-> <<>>, seen_mp3urls |-> {},
            mp3url_to_pid |-> <<>>, podcast_agg |-> PidDict(0),
            episode_catalog_rows |-> <<>>, podcast_episodes_buf |-> PidDict(<<>>),
            partition_files |-> PidDict(<<>>), podcast_catalog |-> <<>>,
            episode_catalog |-> <<>>]

\* phase2_turns before its first record; a file of <<>> does not exist.
P2Start == [pc |-> "stream", stream |-> <<>>, mp3url_to_pid |-> <<>>,
            flush_threshold |-> 1,
            text |-> PidDict(<<>>), audio |-> PidDict(<<>>),
            buffer_counts |-> PidDict(0), flushes |-> 0,
            text_files |-> PidDict(<<>>), audio_files |-> PidDict(<<>>)]

IngestFresh ==
    /\ md5 = Md5Distinct
    /\ p1 = P1Start
    /\ p2 = P2Start

\* A backend over empty catalogs, before any lookup.  A lookup's result is
\* <<>> until it returns, <<x>> when it returns x.
LkStart == [titles |-> <<>>, title_lower_to_pid |-> <<>>,
            category_rows |-> <<>>, category_to_pids |-> <<>>,
            op |-> None, arg |-> <<>>, raised |-> None, result |-> <<>>]

\* No query yet.
CallNone == [op |-> None]

QueryFresh ==
    /\ lk = LkStart
    /\ call = CallNone

InitWindow ==
    /\ EpisodeFresh
    /\ WindowFresh
    /\ BuilderFresh
    /\ LazyFresh
    /\ CacheFresh
    /\ ConvertFresh
    /\ IngestFresh
    /\ QueryFresh

NextWindow ==
    \/ \E n \in 0..MaxTurns : LoadTurns(n)
    \/ \E w \in WindowSizes, v \in Overlaps, si \in StartIndexes, ei \in EndIndexes :
           SlidingWindowStart(w, v, si, ei)
    \/ SlidingWindowYield
    \/ SlidingWindowReturn

SpecWindow == InitWindow /\ [][NextWindow]_vars

(* ---------------------------------------------------------------------- *)
(* Claims about sliding_window, under SpecWindow.                          *)
(* ---------------------------------------------------------------------- *)
\* sliding_window(w, v) was called with start_index and end_index left out.
SwDefaultRange == sw.arg_start = Absent /\ sw.arg_end = Absent

\* window_size > overlap >= 0.
SwValidSizes == sw.window_size > sw.overlap /\ sw.overlap >= 0

\* The generator ran to its end over a loaded episode with n >= 1 turns.
SwFinished ==
    /\ sw.pc = "done"
    /\ ep_turns_loaded
    /\ Len(ep_turns) >= 1
    /\ SwValidSizes
    /\ SwDefaultRange

\* window.new_turns of every yielded window, concatenated in emission order.
AllNewTurns == Concat([i \in 1..Len(sw_windows) |-> new_turns(sw_windows[i])])

\* The turns at the end of the list that no complete window reaches.
SwDropped ==
    IF Len(ep_turns) > sw.window_size
    THEN (Len(ep_turns) - sw.window_size) % (sw.window_size - sw.overlap)
    ELSE 0

\* C1 as stated: for n >= 1 loaded turns and w > v >= 0, the concatenation
\* of new_turns over all windows is exactly the episode's turn list.
C1_Original == SwFinished => AllNewTurns = ep_turns

\* C1 as amended: for n >= 1 loaded turns and w > v >= 0, the concatenation
\* of new_turns over all windows, in emission order, is a prefix of the
\* episode's turn list without duplicates; it leaves out the last
\* (n - w) mod (w - v) turns when n > w and is the full list otherwise.
C1_Completeness ==
    SwFinished =>
        /\ AllNewTurns = SubSeq(ep_turns, 1, Len(ep_turns) - SwDropped)
        /\ NoDuplicates(AllNewTurns)
        /\ (AllNewTurns = ep_turns) <=> (SwDropped = 0)

\* A finished run with overlapping windows that leaves trailing turns out.
C1_Witness ==
    /\ SwFinished
    /\ sw.overlap > 0
    /\ Len(sw_windows) >= 2
    /\ SwDropped > 0

\* C2 as stated: ceil((n - w) / (w - v)) + 1 windows are yielded when n > w,
\* 1 when n <= w, and every window's total_windows is the number yielded.
C2_Original ==
    SwFinished =>
        /\ Len(sw_windows) =
               IF Len(ep_turns) > sw.window_size
               THEN CeilDiv(Len(ep_turns) - sw.window_size,
                            sw.window_size - sw.overlap) + 1
               ELSE 1
        /\ \A i \in 1..Len(sw_windows) :
               sw_windows[i].total_windows = Len(sw_windows)

\* C2 as amended: over n >= 1 loaded turns sliding_window(w, v) yields
\* floor((n - w) / (w - v)) + 1 windows when n > w and 1 window when
\* n <= w, and every window's total_windows is the number yielded.
C2_WindowCount ==
    SwFinished =>
        /\ Len(sw_windows) =
               IF Len(ep_turns) > sw.window_size
               THEN ((Len(ep_turns) - sw.window_size)
                        \div (sw.window_size - sw.overlap)) + 1
               ELSE 1
        /\ \A i \in 1..Len(sw_windows) :
               sw_windows[i].total_windows = Len(sw_windows)

\* A finished run without overlap where the step does not divide n - w.
C2_Witness ==
    /\ SwFinished
    /\ sw.overlap = 0
    /\ Len(ep_turns) > sw.window_size
    /\ (Len(ep_turns) - sw.window_size) % sw.window_size # 0
    /\ Len(sw_windows) >= 2

\* C3 as stated: on a loaded episode with an empty turn list,
\* sliding_window(w, v) with w > v >= 0 emits no window and raises no error.
C3_EmptyTurnList ==
    (/\ sw.pc # "idle"
     /\ ep_turns_loaded
     /\ ep_turns = <<>>
     /\ SwValidSizes
     /\ SwDefaultRange)
    => (sw.error = None /\ sw_windows = <<>>)

(* ---------------------------------------------------------------------- *)
(* Object builders and turn loading (parquet_backend.py), and the          *)
(* property Episode.turns (episode.py).                                    *)
(* ---------------------------------------------------------------------- *)
\* The episode the builder is asked for, and another one in the partition.
EpisodeId == "e1"
OtherEpisodeId == "e2"

TurnRow(id, episode_id, has_speaker, has_text, start_time, end_time) ==
    [id |-> id, episode_id |-> episode_id, has_speaker |-> has_speaker,
     has_text |-> has_text, start_time |-> start_time, end_time |-> end_time]

\* The rows a turn partition may hold: well-formed turns of the episode,
\* rows the loader discards, and a turn of another episode.
RowKinds ==
    { TurnRow("a", EpisodeId, TRUE, TRUE, 0, 2),
      TurnRow("b", EpisodeId, TRUE, TRUE, 1, 3),
      TurnRow("c", EpisodeId, FALSE, TRUE, 1, 2),
      TurnRow("d", EpisodeId, TRUE, FALSE, 2, 3),
      TurnRow("e", EpisodeId, TRUE, TRUE, 2, 2),
      TurnRow("f", OtherEpisodeId, TRUE, TRUE, 0, 1) }

RECURSIVE InsertByStart(_, _)
\* x put into the sorted list xs after every row that does not start later.
InsertByStart(xs, x) ==
    IF xs = <<>> THEN <<x>>
    ELSE IF Head(xs).start_time <= x.start_time
         THEN <<Head(xs)>> \o InsertByStart(Tail(xs), x)
         ELSE <<x>> \o xs

RECURSIVE SortByStart(_)
\* A stable sort by start_time (list.sort(key=lambda t: t.start_time)).
SortByStart(xs) ==
    IF xs = <<>> THEN <<>>
    ELSE InsertByStart(SortByStart(SubSeq(xs, 1, Len(xs) - 1)), xs[Len(xs)])

\* get_turns_for_episode: the partition's rows of one episode, by start time.
get_turns_for_episode(rows, episode_id) ==
    LET OfEpisode(r) == r.episode_id = episode_id
    IN  SortByStart(SelectSeq(rows, OfEpisode))

\* A loader that skips no row.
TurnRowAny(r) == TRUE

\* The per-row checks of _load_turns_into_episode: a row without speaker,
\* without text or with end_time <= start_time is skipped.
TurnRowAccepted(r) == r.has_speaker /\ r.has_text /\ r.end_time > r.start_time

\* _load_turns_into_episode(episode, podcast_id, episode_id).
LoadTurnsIntoEpisode ==
    IF ep_turns_loaded
    THEN UNCHANGED <<ep_turns, ep_turns_loaded, partition_reads>>
    ELSE /\ partition_reads' = partition_reads + 1
         /\ ep_turns' = SortByStart(SelectSeq(
                            get_turns_for_episode(store_rows, EpisodeId),
                            TurnRowAccepted))
         /\ ep_turns_loaded' = TRUE

\* build_episode_object / build_podcast_object: make the Episode and either
\* load its turns or set episode._turn_loader.
BuildEpisodeObject(include_turns) ==
    /\ ep_state = "none"
    /\ ep_state' = "built"
    /\ ep_built_lazy' = ~include_turns
    /\ IF include_turns
       THEN LoadTurnsIntoEpisode /\ UNCHANGED ep_turn_loader
       ELSE /\ ep_turn_loader' = TRUE
            /\ UNCHANGED <<ep_turns, ep_turns_loaded, partition_reads>>
    /\ UNCHANGED <<store_rows, access, windowVars, episodeOthers>>

\* backend._load_turns_into_episode called on the built Episode (what the
\* closure in episode._turn_loader does when something calls it).
CallTurnLoader ==
    /\ ep_state = "built"
    /\ LoadTurnsIntoEpisode
    /\ UNCHANGED <<store_rows, ep_state, ep_turn_loader, ep_built_lazy, access,
                   windowVars, episodeOthers>>

\* A read of the property episode.turns.
TurnsProperty ==
    /\ ep_state = "built"
    /\ access.count < MaxAccess
    /\ LET result == IF ~ep_turns_loaded THEN "RuntimeError" ELSE "ok"
       IN  access' = [count |-> access.count + 1,
                      first |-> IF access.count = 0 THEN result ELSE access.first,
                      last |-> result,
                      value |-> IF result = "ok" THEN ep_turns ELSE <<>>]
    /\ UNCHANGED <<episodeVars, store_rows, ep_state, ep_turn_loader, ep_built_lazy,
                   partition_reads, windowVars, episodeOthers>>

RECURSIVE SeqsUpTo(_, _)
\* The sequences over S of length at most n.
SeqsUpTo(S, n) ==
    IF n = 0 THEN {<<>>}
    ELSE LET shorter == SeqsUpTo(S, n - 1)
         IN  shorter \cup {Append(xs, x) : xs \in {ys \in shorter : Len(ys) = n - 1},
                                           x \in S}

InitBuilder ==
    /\ EpisodeFresh
    /\ WindowFresh
    /\ store_rows \in SeqsUpTo(RowKinds, MaxRows)
    /\ ep_state = "none"
    /\ ep_turn_loader = FALSE
    /\ ep_built_lazy = FALSE
    /\ partition_reads = 0
    /\ access = AccessNone
    /\ LazyFresh
    /\ CacheFresh
    /\ ConvertFresh
    /\ IngestFresh
    /\ QueryFresh

NextBuilder ==
    \/ \E include_turns \in BOOLEAN : BuildEpisodeObject(include_turns)
    \/ CallTurnLoader
    \/ TurnsProperty

SpecBuilder == InitBuilder /\ [][NextBuilder]_vars

(* ---------------------------------------------------------------------- *)
(* Claims about lazy turn loading, under SpecBuilder.                      *)
(* ---------------------------------------------------------------------- *)
\* C4 as stated: after build_episode_object / build_podcast_object with
\* include_turns = False, the first read of episode.turns calls the turn
\* loader, reads the turn partition and returns the turns with turns_loaded
\* true; it does not fail with the turns-not-loaded error.
C4_LazyFirstAccess ==
    (ep_state = "built" /\ ep_built_lazy /\ access.count >= 1)
    => (access.first = "ok" /\ ep_turns_loaded /\ partition_reads >= 1)

(* ---------------------------------------------------------------------- *)
(* The lazy loaders of ParquetBackend (_ensure_podcast_df,                 *)
(* _ensure_episode_df, _ensure_speaker_index, _ensure_episode_metrics_df,  *)
(* _ensure_search_db), called from several threads.  No loader takes a     *)
(* lock, and reading a file releases the interpreter lock, so another      *)
(* thread may run between a loader's test of the handle, its read of the   *)
(* file and its assignment of the handle.                                  *)
(* ---------------------------------------------------------------------- *)
\* "if self._x is not None: return", then the existence test of the index
\* file: the caller either returns, raises IndexNotBuiltError or goes on to
\* read the file.
EnsureCheck(t, r) ==
    /\ thread[t].pc = "idle"
    /\ thread' = [thread EXCEPT ![t] =
            IF handle[r] # 0
            THEN ThreadIdle
            ELSE IF r \in IndexResources /\ ~index_file[r]
            THEN [ThreadIdle EXCEPT !.raised = "IndexNotBuiltError"]
            ELSE [ThreadIdle EXCEPT !.res = r, !.pc = "checked"]]
    /\ UNCHANGED <<handle, loads, index_file, lazyOthers>>

\* The read of the file (pq.read_table, feather.read_feather,
\* duckdb.connect): a new object, not yet stored in the handle.
EnsureRead(t) ==
    /\ thread[t].pc = "checked"
    /\ loads' = [loads EXCEPT ![thread[t].res] = @ + 1]
    /\ thread' = [thread EXCEPT ![t].pc = "read",
                                ![t].obj = loads[thread[t].res] + 1]
    /\ UNCHANGED <<handle, index_file, lazyOthers>>

\* "self._x = <the object read>".
EnsureAssign(t) ==
    /\ thread[t].pc = "read"
    /\ handle' = [handle EXCEPT ![thread[t].res] = thread[t].obj]
    /\ thread' = [thread EXCEPT ![t] = ThreadIdle]
    /\ UNCHANGED <<loads, index_file, lazyOthers>>

\* A backend after __init__: the index files that exist, and the two
\* DataFrames either both unset (maps taken from the cache) or both set by
\* _build_indexes.
InitLazy ==
    /\ EpisodeFresh
    /\ WindowFresh
    /\ BuilderFresh
    /\ index_file \in [IndexResources -> BOOLEAN]
    /\ \E from_cache \in BOOLEAN :
          /\ handle = [r \in Resources |->
                          IF r \in FrameResources /\ ~from_cache THEN 1 ELSE 0]
          /\ loads = handle
    /\ thread = [t \in Threads |-> ThreadIdle]
    /\ CacheFresh
    /\ ConvertFresh
    /\ IngestFresh
    /\ QueryFresh

NextLazy ==
    \/ \E t \in Threads, r \in Resources : EnsureCheck(t, r)
    \/ \E t \in Threads : EnsureRead(t)
    \/ \E t \in Threads : EnsureAssign(t)

SpecLazy == InitLazy /\ [][NextLazy]_vars

(* ---------------------------------------------------------------------- *)
(* Claims about the lazy loaders, under SpecLazy.                          *)
(* ---------------------------------------------------------------------- *)
\* C5 as stated: whatever the interleaving of the threads' calls, every
\* lazily loaded resource is loaded at most once, and a handle that is set
\* is never replaced.
C5_LoadedOnce ==
    [][\A r \in Resources :
          /\ loads'[r] <= 1
          /\ handle[r] # 0 => handle'[r] = handle[r]]_vars

(* ---------------------------------------------------------------------- *)
(* The index cache of ParquetBackend.__init__ (_fingerprint, _load_cache,  *)
(* _build_indexes, _save_cache).                                           *)
(* ---------------------------------------------------------------------- *)
\* _CACHE_VERSION, and the version an earlier release of the code wrote.
CacheVersion == 2
OldCacheVersion == CacheVersion - 1

\* _fingerprint(meta_dir): the MD5 of the names, sizes and mtimes of the
\* .parquet files of the metadata directory.  It reads no file content.
Fingerprint(files) == <<"md5", files.stat>>

\* The lookup maps _build_indexes derives from the catalog files.
BuildIndexes(files) == <<"maps", files.content>>

\* A _load_cache that does not compare the stored fingerprint.
LoadCacheIgnoringFingerprint(file, files) ==
    IF file.kind = "absent" THEN "absent"
    ELSE IF file.kind = "corrupt" THEN "unreadable"
    ELSE IF file.version # CacheVersion THEN "version"
    ELSE "hit"

\* _load_cache: "hit" when it returns True, else why it returns False.
LoadCache(file, files) ==
    IF file.kind = "absent" THEN "absent"
    ELSE IF file.kind = "corrupt" THEN "unreadable"
    ELSE IF file.version # CacheVersion THEN "version"
    ELSE IF file.fingerprint # Fingerprint(files) THEN "fingerprint"
    ELSE "hit"

\* _save_cache: the pickle is written, or open() fails and the old file
\* stays, or the dump fails after open() truncated the file.
SaveCache(maps, outcome) ==
    IF outcome = "written"
    THEN [kind |-> "ok", version |-> CacheVersion,
          fingerprint |-> Fingerprint(meta_files), maps |-> maps]
    ELSE IF outcome = "unchanged" THEN cache_file
    ELSE [CacheAbsent EXCEPT !.kind = "corrupt"]

SaveOutcomes == {"written", "unchanged", "corrupt"}

\* ParquetBackend(data_dir).
ConstructBackend(save_outcome) ==
    /\ backend.n < MaxConstructs
    /\ LET loaded == LoadCache(cache_file, meta_files)
       IN  IF loaded = "hit"
           THEN /\ backend' = [n |-> backend.n + 1, maps |-> cache_file.maps,
                               why |-> "hit"]
                /\ UNCHANGED cache_file
           ELSE /\ backend' = [n |-> backend.n + 1,
                               maps |-> BuildIndexes(meta_files), why |-> loaded]
                /\ cache_file' = SaveCache(BuildIndexes(meta_files), save_outcome)
    /\ UNCHANGED <<meta_files, fp_history, cacheOthers>>

\* Something outside the backend rewrites metadata Parquet files (a new
\* ingest, an index build, a copy that keeps the timestamps): the content,
\* the stat or both change.
RewriteMetadata(content, stat) ==
    /\ content \in {meta_files.content, meta_files.content + 1}
    /\ content <= MaxContent
    /\ <<content, stat>> # <<meta_files.content, meta_files.stat>>
    /\ meta_files' = [content |-> content, stat |-> stat]
    /\ fp_history' = fp_history \cup {<<stat, content>>}
    /\ UNCHANGED <<cache_file, backend, cacheOthers>>

\* The cache file is removed by hand.
RemoveCache ==
    /\ cache_file.kind # "absent"
    /\ cache_file' = CacheAbsent
    /\ UNCHANGED <<meta_files, backend, fp_history, cacheOthers>>

\* Before the first construction the cache is absent, unreadable, or was left
\* by a release with another cache version.
InitCache ==
    /\ EpisodeFresh
    /\ WindowFresh
    /\ BuilderFresh
    /\ LazyFresh
    /\ meta_files = [content |-> 0, stat |-> 0]
    /\ fp_history = {<<0, 0>>}
    /\ backend = BackendNone
    /\ cache_file \in
          { CacheAbsent,
            [CacheAbsent EXCEPT !.kind = "corrupt"],
            [kind |-> "ok", version |-> OldCacheVersion,
             fingerprint |-> Fingerprint(meta_files),
             maps |-> BuildIndexes(meta_files)] }
    /\ ConvertFresh
    /\ IngestFresh
    /\ QueryFresh

NextCache ==
    \/ \E o \in SaveOutcomes : ConstructBackend(o)
    \/ \E c \in 0..MaxContent, st \in 0..MaxStat : RewriteMetadata(c, st)
    \/ RemoveCache

SpecCache == InitCache /\ [][NextCache]_vars

(* ---------------------------------------------------------------------- *)
(* Claims about the index cache, under SpecCache.                          *)
(* ---------------------------------------------------------------------- *)
\* The cache file exists, unpickles, and carries the code's cache version
\* and the current fingerprint of the metadata Parquet files.
CacheValid ==
    /\ cache_file.kind = "ok"
    /\ cache_file.version = CacheVersion
    /\ cache_file.fingerprint = Fingerprint(meta_files)

\* The construction that this step performs takes the maps from the cache
\* exactly when the cache is valid, and otherwise rebuilds them from the
\* catalog files and saves a new cache (unless the write fails).
ConstructionDecides ==
    /\ (backend'.why = "hit") <=> CacheValid
    /\ CacheValid => backend'.maps = cache_file.maps /\ cache_file' = cache_file
    /\ ~CacheValid =>
          /\ backend'.maps = BuildIndexes(meta_files)
          /\ \/ cache_file' = [kind |-> "ok", version |-> CacheVersion,
                               fingerprint |-> Fingerprint(meta_files),
                               maps |-> BuildIndexes(meta_files)]
             \/ cache_file' = cache_file
             \/ cache_file'.kind = "corrupt"

\* No two different contents of the metadata files ever had the same stat,
\* that is the same fingerprint.
FingerprintFaithful ==
    \A x, y \in fp_history : x[1] = y[1] => x[2] = y[2]

\* C6 as stated: a construction uses the cache only if it exists, is
\* readable and has the code's version and the current fingerprint, and
\* rebuilds and saves otherwise; hence the constructed maps always
\* correspond to the current metadata files.
C6_Original ==
    [][backend'.n # backend.n =>
          /\ ConstructionDecides
          /\ backend'.maps = BuildIndexes(meta_files)]_vars

\* C6 as amended: the decision is as stated; the constructed maps
\* correspond to the current metadata files provided no two different
\* contents of the metadata Parquet files ever had the same (name, size,
\* mtime_ns) fingerprint.
C6_CacheDecision ==
    [][backend'.n # backend.n =>
          /\ ConstructionDecides
          /\ FingerprintFaithful => backend'.maps = BuildIndexes(meta_files)]_vars

\* A second construction found a cache saved for earlier metadata files,
\* saw another fingerprint and rebuilt.
C6_Witness ==
    /\ backend.n >= 2
    /\ backend.why = "fingerprint"
    /\ meta_files.content > 0
    /\ FingerprintFaithful
    /\ backend.maps = BuildIndexes(meta_files)

(* ---------------------------------------------------------------------- *)
(* convert_to_parquet.main: the three phases write a staging directory,    *)
(* which two renames then put in the place of the store.  A directory      *)
(* holds "none" (it does not exist), "prev" (the complete previous store), *)
(* "older" (an earlier backup), "stale" (the staging directory of an       *)
(* earlier run), "empty", "phase1", "phase2" (the output so far), "new"    *)
(* (the complete new store), "partial" (a phase stopped halfway) or        *)
(* "damaged" (a removal stopped halfway).                                  *)
(* ---------------------------------------------------------------------- *)
FinalDir == "root"
BackupDir == "old"

\* A main that hands the phases the output directory itself.
StagingDirIsFinal == FinalDir

\* tmp_dir = final_dir + ".tmp", the output_dir main passes to every phase.
StagingDir == "tmp"

Exists(d) == fs[d] # "none"

\* What a step inside the try block does: it completes ("no"), raises an
\* instance of Exception, or raises a BaseException that is not one
\* (KeyboardInterrupt, SystemExit).
Raises == {"no", "Exception", "BaseException"}

\* The status of a process ended by an exception nothing catches: 1, or
\* 130 when the interpreter re-raises SIGINT for a KeyboardInterrupt.
UncaughtExit == {1, 130}

\* An exception inside the try block: "except Exception" takes control when
\* it is an instance of Exception, otherwise it ends the process.
CvRaise(at, kind) ==
    IF kind = "Exception"
    THEN cv' = [cv EXCEPT !.pc = "handler", !.raised = TRUE, !.caught = TRUE,
                          !.failed_at = at]
    ELSE \E code \in UncaughtExit :
            cv' = [cv EXCEPT !.pc = "exit", !.raised = TRUE, !.failed_at = at,
                             !.exit_code = code]

\* The process ends before the try block: sys.exit(1) for a missing input,
\* or an exception nothing catches.
CvAbort(at) == cv' = [cv EXCEPT !.pc = "exit", !.failed_at = at, !.exit_code = 1]

\* The tests for the two input files.
MainCheckInputs(inputs_exist) ==
    /\ cv.pc = "args"
    /\ IF inputs_exist THEN cv' = [cv EXCEPT !.pc = "clean_tmp"] ELSE CvAbort("args")
    /\ UNCHANGED <<fs, convertOthers>>

\* "if os.path.exists(tmp_dir): shutil.rmtree(tmp_dir)", then
\* os.makedirs(tmp_dir), both before the try block.
MainCleanTmp(outcome) ==
    /\ cv.pc = "clean_tmp"
    /\ IF outcome = "rmtree_fails"
       THEN /\ Exists("tmp")
            /\ fs' = [fs EXCEPT !["tmp"] = "damaged"]
            /\ CvAbort("clean_tmp")
       ELSE IF outcome = "makedirs_fails"
       THEN /\ fs' = [fs EXCEPT !["tmp"] = "none"]
            /\ CvAbort("clean_tmp")
       ELSE /\ fs' = [fs EXCEPT !["tmp"] = "empty"]
            /\ cv' = [cv EXCEPT !.pc = "phase1"]
    /\ UNCHANGED convertOthers

\* What a phase leaves in its output directory.
PhaseResult(phase, kind) ==
    IF kind # "no" THEN "partial"
    ELSE IF phase = "phase3" THEN "new"
    ELSE phase

NextPhase(phase) == IF phase = "phase1" THEN "phase2"
                    ELSE IF phase = "phase2" THEN "phase3" ELSE "swap"

\* A phase called with output_dir: every file it writes is under output_dir.
RunPhase(phase, output_dir, kind) ==
    /\ fs' = [fs EXCEPT ![output_dir] = PhaseResult(phase, kind)]
    /\ IF kind = "no" THEN cv' = [cv EXCEPT !.pc = NextPhase(phase)]
                      ELSE CvRaise(phase, kind)

\* phase1_episodes(episode_file, tmp_dir).
Phase1Episodes(kind) ==
    /\ cv.pc = "phase1"
    /\ RunPhase("phase1", StagingDir, kind)
    /\ UNCHANGED convertOthers

\* "if not args.skip_turns: phase2_turns(turn_file, tmp_dir, mp3url_to_pid)".
Phase2Turns(kind) ==
    /\ cv.pc = "phase2"
    /\ IF cv.skip_turns
       THEN /\ kind = "no"
            /\ cv' = [cv EXCEPT !.pc = NextPhase("phase2")]
            /\ UNCHANGED fs
       ELSE RunPhase("phase2", StagingDir, kind)
    /\ UNCHANGED convertOthers

\* phase3_indexes(tmp_dir, podcast_agg).
Phase3Indexes(kind) ==
    /\ cv.pc = "phase3"
    /\ RunPhase("phase3", StagingDir, kind)
    /\ UNCHANGED convertOthers

\* "if os.path.exists(backup): shutil.rmtree(backup)", reached only when
\* final_dir exists.
MainRemoveBackup(kind) ==
    /\ cv.pc = "swap"
    /\ Exists(FinalDir)
    /\ Exists(BackupDir)
    /\ IF kind = "no"
       THEN fs' = [fs EXCEPT ![BackupDir] = "none"] /\ UNCHANGED cv
       ELSE fs' = [fs EXCEPT ![BackupDir] = "damaged"] /\ CvRaise("rm_backup", kind)
    /\ UNCHANGED convertOthers

\* os.rename(final_dir, backup).
MainRenameFinal(kind) ==
    /\ cv.pc = "swap"
    /\ Exists(FinalDir)
    /\ ~Exists(BackupDir)
    /\ IF kind = "no"
       THEN /\ fs' = [fs EXCEPT ![BackupDir] = fs[FinalDir], ![FinalDir] = "none"]
            /\ cv' = [cv EXCEPT !.pc = "rename_tmp"]
       ELSE UNCHANGED fs /\ CvRaise("rename_final", kind)
    /\ UNCHANGED convertOthers

\* os.rename(tmp_dir, final_dir).
MainRenameTmp(kind) ==
    /\ \/ cv.pc = "rename_tmp"
       \/ cv.pc = "swap" /\ ~Exists(FinalDir)
    /\ IF kind = "no"
       THEN /\ fs' = [fs EXCEPT ![FinalDir] = fs["tmp"], !["tmp"] = "none"]
            /\ cv' = [cv EXCEPT !.pc = "exit", !.exit_code = 0]
       ELSE UNCHANGED fs /\ CvRaise("rename_tmp", kind)
    /\ UNCHANGED convertOthers

\* The except clause: "if os.path.exists(tmp_dir): shutil.rmtree(tmp_dir)",
\* then sys.exit(1).  A removal that itself raises ends the process with
\* that exception.
MainHandler(rmtree_raises) ==
    /\ cv.pc = "handler"
    /\ IF rmtree_raises
       THEN /\ Exists("tmp")
            /\ fs' = [fs EXCEPT !["tmp"] = "damaged"]
            /\ \E code \in UncaughtExit :
                  cv' = [cv EXCEPT !.pc = "exit", !.failed_at = "handler",
                                   !.exit_code = code]
       ELSE /\ fs' = [fs EXCEPT !["tmp"] = "none"]
            /\ cv' = [cv EXCEPT !.pc = "exit", !.exit_code = 1]
    /\ UNCHANGED convertOthers

\* Before a run: the store may exist, and so may the backup and the staging
\* directory of earlier runs.
InitConvert ==
    /\ EpisodeFresh
    /\ WindowFresh
    /\ BuilderFresh
    /\ LazyFresh
    /\ CacheFresh
    /\ IngestFresh
    /\ QueryFresh
    /\ \E r \in {"none", "prev"}, t \in {"none", "stale"}, o \in {"none", "older"},
          skip \in BOOLEAN :
          /\ fs = [d \in {"root", "tmp", "old"} |->
                      IF d = "root" THEN r ELSE IF d = "tmp" THEN t ELSE o]
          /\ cv = [CvStart EXCEPT !.skip_turns = skip, !.had_store = (r = "prev")]

NextConvert ==
    \/ \E ok \in BOOLEAN : MainCheckInputs(ok)
    \/ \E o \in {"ok", "rmtree_fails", "makedirs_fails"} : MainCleanTmp(o)
    \/ \E kind \in Raises : Phase1Episodes(kind)
    \/ \E kind \in Raises : Phase2Turns(kind)
    \/ \E kind \in Raises : Phase3Indexes(kind)
    \/ \E kind \in Raises : MainRemoveBackup(kind)
    \/ \E kind \in Raises : MainRenameFinal(kind)
    \/ \E kind \in Raises : MainRenameTmp(kind)
    \/ \E rmtree_raises \in BOOLEAN : MainHandler(rmtree_raises)

SpecConvert == InitConvert /\ [][NextConvert]_vars

(* ---------------------------------------------------------------------- *)
(* Claims about the ingest's output directory, under SpecConvert.          *)
(* ---------------------------------------------------------------------- *)
\* C7 as stated: if a complete store exists at <root> before the run, then
\* at every point during and after the run, whether it succeeds or fails,
\* <root> holds the complete previous store or the complete new store.
C7_AtomicOutput ==
    cv.had_store => fs[FinalDir] \in {"prev", "new"}

PhasePcs == {"phase1", "phase2", "phase3"}

\* During phases 1-3 nothing under <root> (nor the backup) changes: every
\* write goes to <root>.tmp.
PhasesLeaveRoot ==
    [][cv.pc \in PhasePcs =>
          /\ fs'[FinalDir] = fs[FinalDir]
          /\ fs'[BackupDir] = fs[BackupDir]]_vars

Missing == <<"<missing>">>

RECURSIVE LStrip(_)
LStrip(str) == IF str # <<>> /\ Head(str) = " " THEN LStrip(Tail(str)) ELSE str

Reverse(str) == [i \in 1..Len(str) |-> str[Len(str) + 1 - i]]

\* str.strip(): the string without its leading and trailing blanks.
Strip(str) == Reverse(LStrip(Reverse(LStrip(str))))

\* safe_str(val, default=""): the default for None and for a falsy value,
\* otherwise str(val).strip().
safe_str(val) ==
    IF val = Missing THEN <<>>
    ELSE IF val = <<>> THEN <<>>
    ELSE Strip(val)

\* safe_float(val, default=0.0) and safe_int(val, default=0) on an optional
\* number: the default for None.
safe_float(val) == IF val = Absent THEN 0 ELSE val[1]

safe_int(val) == IF val = Absent THEN 0 ELSE val[1]

(* ---------------------------------------------------------------------- *)
(* phase1_episodes: one pass over the episode records.  A record is the    *)
(* raw value of its mp3url and rssUrl keys; its remaining fields are       *)
(* stood for by epTitle, which is the record's position in the stream.     *)
(* ---------------------------------------------------------------------- *)
RawMp3Urls == {Missing, <<" ">>, <<"a">>, <<"a", " ">>, <<"b">>}
RawRssUrls == {Missing, <<"r">>, <<"s">>}

\* A loop that never finds an mp3url among those it has seen.
NeverSeen(mp3url, seen_mp3urls) == FALSE

\* "if mp3url in seen_mp3urls: continue".
AlreadySeen(mp3url, seen_mp3urls) == mp3url \in seen_mp3urls

\* The body of "for rec in pbar" for one record.
Phase1Record(raw_mp3url, raw_rss_url) ==
    /\ p1.pc = "stream"
    /\ Len(p1.stream) < MaxEpisodeRecs
    /\ LET rec == [mp3url |-> raw_mp3url, rssUrl |-> raw_rss_url,
                   epTitle |-> Len(p1.stream) + 1]
           mp3url == safe_str(rec.mp3url)
           rss_url == safe_str(rec.rssUrl)
           read == [p1 EXCEPT !.stream = Append(@, rec)]
       IN IF mp3url = <<>> \/ rss_url = <<>> THEN p1' = read
          ELSE IF AlreadySeen(mp3url, p1.seen_mp3urls) THEN p1' = read
          ELSE LET pid == podcast_id_from_rss(rss_url)
                   eid == episode_id_from_mp3(mp3url)
                   catalog_row == [episode_id |-> eid, podcast_id |-> pid,
                                   ep_title |-> rec.epTitle, mp3_url |-> mp3url]
                   episode_row == [episode_id |-> eid, podcast_id |-> pid,
                                   ep_title |-> rec.epTitle, mp3_url |-> mp3url,
                                   rss_url |-> rss_url]
               IN p1' = [read EXCEPT
                            !.seen_mp3urls = @ \cup {mp3url},
                            !.mp3url_to_pid = (mp3url :> pid) @@ @,
                            !.podcast_agg[pid] = @ + 1,
                            !.episode_catalog_rows = Append(@, catalog_row),
                            !.podcast_episodes_buf[pid] = Append(@, episode_row)]
    /\ UNCHANGED <<md5, p2, ingestOthers>>

\* After the loop: one data.parquet per podcast in the buffer, then the
\* podcast catalog (one row per key of podcast_agg) and the episode catalog.
Phase1Write ==
    /\ p1.pc = "stream"
    /\ p1' = [p1 EXCEPT
                 !.pc = "done",
                 !.partition_files = p1.podcast_episodes_buf,
                 !.podcast_episodes_buf = PidDict(<<>>),
                 !.podcast_catalog =
                     {[podcast_id |-> pid, episode_count |-> p1.podcast_agg[pid]] :
                         pid \in {q \in Pids : p1.podcast_agg[q] > 0}},
                 !.episode_catalog = p1.episode_catalog_rows]
    /\ UNCHANGED <<md5, p2, ingestOthers>>

InitPhase1 ==
    /\ EpisodeFresh
    /\ WindowFresh
    /\ BuilderFresh
    /\ LazyFresh
    /\ CacheFresh
    /\ ConvertFresh
    /\ md5 \in {Md5Distinct, Md5Colliding}
    /\ p1 = P1Start
    /\ p2 = P2Start
    /\ QueryFresh

NextPhase1 ==
    \/ \E raw_mp3url \in RawMp3Urls, raw_rss_url \in RawRssUrls :
          Phase1Record(raw_mp3url, raw_rss_url)
    \/ Phase1Write

SpecPhase1 == InitPhase1 /\ [][NextPhase1]_vars

(* ---------------------------------------------------------------------- *)
(* Claims about pass 1, under SpecPhase1.                                  *)
(* ---------------------------------------------------------------------- *)
P1Mp3(i) == safe_str(p1.stream[i].mp3url)

P1Rss(i) == safe_str(p1.stream[i].rssUrl)

\* Record i has both URLs.
P1Valid(i) == P1Mp3(i) # <<>> /\ P1Rss(i) # <<>>

\* Record i has both URLs and no earlier record of the stream has its mp3url.
P1FirstInStream(i) ==
    P1Valid(i) /\ \A j \in 1..(i - 1) : P1Mp3(j) # P1Mp3(i)

\* Record i has both URLs and no earlier record that has both URLs has its
\* mp3url.
P1FirstValid(i) ==
    P1Valid(i) /\ \A j \in 1..(i - 1) : P1Valid(j) => P1Mp3(j) # P1Mp3(i)

P1CatalogRowsOf(i) ==
    {k \in 1..Len(p1.episode_catalog) : p1.episode_catalog[k].ep_title = i}

P1PartitionRowsOf(i) ==
    UNION {{<<pid, k>> : k \in {n \in 1..Len(p1.partition_files[pid]) :
                                   p1.partition_files[pid][n].ep_title = i}} :
              pid \in Pids}

\* Record i has exactly one catalog row and exactly one partition row, in the
\* partition of its rss_url's podcast id, with the record's values.
P1YieldsOneRow(i) ==
    /\ Cardinality(P1CatalogRowsOf(i)) = 1
    /\ \A k \in P1CatalogRowsOf(i) :
          p1.episode_catalog[k] =
              [episode_id |-> episode_id_from_mp3(P1Mp3(i)),
               podcast_id |-> podcast_id_from_rss(P1Rss(i)),
               ep_title |-> i, mp3_url |-> P1Mp3(i)]
    /\ Cardinality(P1PartitionRowsOf(i)) = 1
    /\ \A pk \in P1PartitionRowsOf(i) :
          /\ pk[1] = podcast_id_from_rss(P1Rss(i))
          /\ p1.partition_files[pk[1]][pk[2]] =
                [episode_id |-> episode_id_from_mp3(P1Mp3(i)),
                 podcast_id |-> podcast_id_from_rss(P1Rss(i)),
                 ep_title |-> i, mp3_url |-> P1Mp3(i), rss_url |-> P1Rss(i)]

P1YieldsNothing(i) == P1CatalogRowsOf(i) = {} /\ P1PartitionRowsOf(i) = {}

RECURSIVE SumOver(_, _)
SumOver(f, keys) ==
    IF keys = {} THEN 0
    ELSE LET k == CHOOSE x \in keys : TRUE IN f[k] + SumOver(f, keys \ {k})

\* The catalog has as many rows as the partitions together, and as the
\* podcasts' episode counts add up to.
P1CountsAgree ==
    /\ Len(p1.episode_catalog) =
          SumOver([pid \in Pids |-> Len(p1.partition_files[pid])], Pids)
    /\ Len(p1.episode_catalog) =
          SumOver([row \in p1.podcast_catalog |-> row.episode_count], p1.podcast_catalog)

\* C10 as stated: after pass 1, each record with non-empty mp3url and rssUrl
\* whose mp3url has not occurred earlier in the stream yields exactly one
\* episode-catalog row and exactly one row in exactly one partition, that of
\* its rss_url's podcast id, with its own field values; every other record
\* yields nothing; and the catalog row count equals the sum of the partition
\* row counts and the sum of the podcasts' episode counts.
C10_Original ==
    p1.pc = "done" =>
        /\ \A i \in 1..Len(p1.stream) :
              IF P1FirstInStream(i) THEN P1YieldsOneRow(i) ELSE P1YieldsNothing(i)
        /\ P1CountsAgree

\* C10, amended: after pass 1, each record whose mp3url and rssUrl are
\* non-empty once coerced by safe_str, and whose coerced mp3url has not
\* occurred earlier in a record that itself has both URLs, yields exactly one
\* episode-catalog row and exactly one row in exactly one partition, that of
\* its rss_url's podcast id, with its own field values; every other record
\* yields nothing; and the catalog row count equals the sum of the partition
\* row counts and the sum of the podcasts' episode counts.
C10_FirstValidOccurrence ==
    p1.pc = "done" =>
        /\ \A i \in 1..Len(p1.stream) :
              IF P1FirstValid(i) THEN P1YieldsOneRow(i) ELSE P1YieldsNothing(i)
        /\ P1CountsAgree

\* Pass 1 has ended on a stream in which an mp3url first comes without an
\* rssUrl, then with one, then once more: one row, for the second record.
C10_Witness ==
    /\ p1.pc = "done"
    /\ Len(p1.stream) = 3
    /\ ~P1Valid(1)
    /\ P1Mp3(1) = P1Mp3(2)
    /\ P1FirstValid(2)
    /\ P1Valid(3)
    /\ P1Mp3(3) = P1Mp3(2)
    /\ Len(p1.episode_catalog) = 1
    /\ p1.episode_catalog[1].ep_title = 2

(* ---------------------------------------------------------------------- *)
(* phase2_turns: one pass over the turn records, buffered per podcast.     *)
(* A record is the raw value of its mp3url, startTime and turnCount keys;  *)
(* its remaining fields are stood for by turnText, which is the record's   *)
(* position in the stream.                                                 *)
(* ---------------------------------------------------------------------- *)
RawTurnMp3Urls == {Missing, <<"a">>, <<" ", "a">>, <<"b">>}

\* The raw <<startTime, turnCount>> of a record.
RawTurnKeys == {<<Absent, Given(1)>>, <<Given(1), Absent>>}

\* A flush that writes the buffer in the place of the file.
overwrite_table(existing, new_table) == new_table

\* pa.concat_tables([existing, new_table]).
concat_tables(existing, new_table) == existing \o new_table

\* "if buf[...]: ... if os.path.exists(path): concatenate and rewrite, else
\* write": the content of the file after a flush of the buffer.
FlushedFile(file, buf) ==
    IF buf = <<>> THEN file
    ELSE IF file # <<>> THEN concat_tables(file, buf)
    ELSE buf

\* flush_podcast(pid) on the frame f.
flush_podcast(f, pid) ==
    [f EXCEPT !.text_files[pid] = FlushedFile(@, f.text[pid]),
              !.audio_files[pid] = FlushedFile(@, f.audio[pid]),
              !.text[pid] = <<>>,
              !.audio[pid] = <<>>,
              !.buffer_counts[pid] = 0]

\* The body of "for rec in pbar" for one record.
Phase2Record(raw_mp3url, raw_key) ==
    /\ p2.pc = "stream"
    /\ Len(p2.stream) < MaxTurnRecs
    /\ LET rec == [mp3url |-> raw_mp3url, turnText |-> Len(p2.stream) + 1,
                   startTime |-> raw_key[1], turnCount |-> raw_key[2]]
           mp3url == safe_str(rec.mp3url)
           read == [p2 EXCEPT !.stream = Append(@, rec)]
       IN IF mp3url = <<>> THEN p2' = read
          ELSE IF mp3url \notin DOMAIN p2.mp3url_to_pid THEN p2' = read
          ELSE LET pid == p2.mp3url_to_pid[mp3url]
                   eid == episode_id_from_mp3(mp3url)
                   text_row == [episode_id |-> eid, podcast_id |-> pid,
                                mp3_url |-> mp3url, turn_text |-> rec.turnText,
                                start_time |-> safe_float(rec.startTime),
                                turn_count |-> safe_int(rec.turnCount)]
                   audio_row == [episode_id |-> eid, podcast_id |-> pid,
                                 mp3_url |-> mp3url,
                                 turn_count |-> safe_int(rec.turnCount),
                                 start_time |-> safe_float(rec.startTime)]
                   buffered == [read EXCEPT !.text[pid] = Append(@, text_row),
                                            !.audio[pid] = Append(@, audio_row),
                                            !.buffer_counts[pid] = @ + 1]
               IN p2' = IF buffered.buffer_counts[pid] >= buffered.flush_threshold
                        THEN flush_podcast(buffered, pid)
                        ELSE buffered
    /\ UNCHANGED <<md5, p1, ingestOthers>>

RECURSIVE FlushRemaining(_, _)
FlushRemaining(f, pids) ==
    IF pids = {} THEN f
    ELSE LET pid == CHOOSE x \in pids : TRUE
         IN FlushRemaining(IF f.text[pid] # <<>> \/ f.audio[pid] # <<>>
                           THEN flush_podcast(f, pid) ELSE f,
                           pids \ {pid})

\* After the loop: "for pid in list(buffers.keys()): if buffers[pid]["text"]
\* or buffers[pid]["audio"]: flush_podcast(pid)".
Phase2FlushRemaining ==
    /\ p2.pc = "stream"
    /\ p2' = [FlushRemaining(p2, Pids) EXCEPT !.pc = "done"]
    /\ UNCHANGED <<md5, p1, ingestOthers>>

\* The flush thresholds taken for TURN_FLUSH_THRESHOLD.
TurnFlushThresholds == 1..MaxThreshold

\* Pass 2 starts from the mp3url_to_pid that pass 1 returned: some mp3 URLs,
\* each with the podcast id of an RSS URL.
InitPhase2 ==
    /\ EpisodeFresh
    /\ WindowFresh
    /\ BuilderFresh
    /\ LazyFresh
    /\ CacheFresh
    /\ ConvertFresh
    /\ md5 \in {Md5Distinct, Md5Colliding}
    /\ p1 = P1Start
    /\ \E known \in SUBSET Mp3Urls, threshold \in TurnFlushThresholds :
          \E rss_of \in [known -> RssUrls] :
             p2 = [P2Start EXCEPT
                      !.mp3url_to_pid = [u \in known |-> podcast_id_from_rss(rss_of[u])],
                      !.flush_threshold = threshold]
    /\ QueryFresh

NextPhase2 ==
    \/ \E raw_mp3url \in RawTurnMp3Urls, raw_key \in RawTurnKeys :
          Phase2Record(raw_mp3url, raw_key)
    \/ Phase2FlushRemaining

SpecPhase2 == InitPhase2 /\ [][NextPhase2]_vars

(* ---------------------------------------------------------------------- *)
(* Claims about pass 2, under SpecPhase2.                                  *)
(* ---------------------------------------------------------------------- *)
P2Mp3(i) == safe_str(p2.stream[i].mp3url)

\* Record i matched a pass-1 episode of podcast pid.
P2Matched(i, pid) ==
    /\ P2Mp3(i) \in DOMAIN p2.mp3url_to_pid
    /\ p2.mp3url_to_pid[P2Mp3(i)] = pid

\* The positions of the records that matched podcast pid, in stream order.
P2MatchedPositions(pid) ==
    LET Matches(i) == P2Matched(i, pid)
    IN SelectSeq([i \in 1..Len(p2.stream) |-> i], Matches)

\* The row of the text file that record i gives.
P2TextRowOf(i, pid) ==
    [episode_id |-> episode_id_from_mp3(P2Mp3(i)), podcast_id |-> pid,
     mp3_url |-> P2Mp3(i), turn_text |-> i,
     start_time |-> safe_float(p2.stream[i].startTime),
     turn_count |-> safe_int(p2.stream[i].turnCount)]

TurnKey(row) == <<row.episode_id, row.turn_count, row.start_time>>

\* C9: after pass 2, for every podcast, the text file holds exactly the
\* records whose mp3url matched a pass-1 episode of that podcast, each once
\* and in stream order, whatever the flush threshold and the interleaving of
\* podcasts; the audio_features file has as many rows, with the same
\* (episode_id, turn_count, start_time) keys in the same order; and a record
\* with an unmatched mp3url is in no file.
C9_TurnFilesComplete ==
    p2.pc = "done" =>
        \A pid \in Pids :
            LET text == p2.text_files[pid]
                audio == p2.audio_files[pid]
                matched == P2MatchedPositions(pid)
            IN /\ Len(text) = Len(matched)
               /\ \A k \in 1..Len(text) : text[k] = P2TextRowOf(matched[k], pid)
               /\ Len(audio) = Len(text)
               /\ \A k \in 1..Len(audio) : TurnKey(audio[k]) = TurnKey(text[k])

\* Pass 2 has ended with flush threshold 1 on three records: two matched the
\* same podcast, so that the second flush found the file of the first, and
\* one had an mp3url that pass 1 never saw.
C9_Witness ==
    /\ p2.pc = "done"
    /\ p2.flush_threshold = 1
    /\ Len(p2.stream) = 3
    /\ \E pid \in Pids : Len(p2.text_files[pid]) = 2 /\ Len(p2.audio_files[pid]) = 2
    /\ \E i \in 1..3 : P2Mp3(i) # <<>> /\ P2Mp3(i) \notin DOMAIN p2.mp3url_to_pid

(* ---------------------------------------------------------------------- *)
(* Catalog lookups: ParquetBackend.get_podcast_by_name and                 *)
(* get_podcasts_by_category over the maps of _build_indexes, and           *)
(* SPORCDataset.search_podcast.  A string is the sequence of its           *)
(* characters; a podcast's id is its row number in the podcast catalog.    *)
(* ---------------------------------------------------------------------- *)
LowerChar(c) == IF c = "A" THEN "a" ELSE IF c = "B" THEN "b"
                ELSE IF c = "N" THEN "n" ELSE c

\* str.lower().
Lower(str) == [i \in 1..Len(str) |-> LowerChar(str[i])]

\* "needle in hay" on strings.
Contains(hay, needle) ==
    \E k \in 0..(Len(hay) - Len(needle)) : SubSeq(hay, k + 1, k + Len(needle)) = needle

\* A dict as the sequence of its <<key, value>> items in insertion order.
DictKeys(d) == {d[i][1] : i \in 1..Len(d)}

DictGet(d, key) == (CHOOSE i \in 1..Len(d) : d[i][1] = key)

\* d[key] = value: a new key goes last, an old key keeps its place.
DictSet(d, key, value) ==
    IF key \in DictKeys(d)
    THEN [i \in 1..Len(d) |-> IF d[i][1] = key THEN <<key, value>> ELSE d[i]]
    ELSE Append(d, <<key, value>>)

RECURSIVE TitleIndex(_, _)
\* {title.lower(): pid for pid, title in zip(pc_pids, pc_titles)}, over the
\* first n rows of the podcast catalog.
TitleIndex(titles, n) ==
    IF n = 0 THEN <<>>
    ELSE DictSet(TitleIndex(titles, n - 1), Lower(titles[n]), n)

RECURSIVE CategoryIndex(_, _)
\* "for cat, pid in zip(ci_cats, ci_pids):
\*      self._category_to_pids.setdefault(cat, set()).add(pid)".
CategoryIndex(rows, n) ==
    IF n = 0 THEN <<>>
    ELSE LET d == CategoryIndex(rows, n - 1)
             cat == rows[n][1]
             old == IF cat \in DictKeys(d) THEN d[DictGet(d, cat)][2] ELSE {}
         IN DictSet(d, cat, old \cup {rows[n][2]})

\* The first item of a dict, in iteration order, whose key passes the test.
FirstItem(d, Test(_)) ==
    IF \E i \in 1..Len(d) : Test(d[i][1])
    THEN <<d[CHOOSE i \in 1..Len(d) :
                 Test(d[i][1]) /\ \A j \in 1..(i - 1) : ~Test(d[j][1])]>>
    ELSE <<>>

\* A lookup that ends by returning x, or by raising.
LkReturn(op, arg, x) ==
    lk' = [lk EXCEPT !.op = op, !.arg = arg, !.raised = None, !.result = <<x>>]

LkRaise(op, arg, error) ==
    lk' = [lk EXCEPT !.op = op, !.arg = arg, !.raised = error, !.result = <<>>]

\* A partial match that compares the strings without lowering the name.
PartialMatchNoLower(name, title_lower) == Contains(title_lower, name)

\* "if name_lower in title_lower".
PartialMatch(name, title_lower) == Contains(title_lower, Lower(name))

\* ParquetBackend.get_podcast_by_name(name); what it returns is the catalog
\* row of the podcast, kept here as the row's title.
GetPodcastByName(name) ==
    /\ LET name_lower == Lower(name)
           index == lk.title_lower_to_pid
           Partial(title_lower) == PartialMatch(name, title_lower)
           partial == FirstItem(index, Partial)
       IN IF name_lower \in DictKeys(index)
          THEN LkReturn("get_podcast_by_name", name,
                        lk.titles[index[DictGet(index, name_lower)][2]])
          ELSE IF partial # <<>>
          THEN LkReturn("get_podcast_by_name", name, lk.titles[partial[1][2]])
          ELSE LkRaise("get_podcast_by_name", name, "NotFoundError")
    /\ UNCHANGED lookupOthers

RECURSIVE PodcastsDict(_, _)
\* SPORCDataset._podcasts: one Podcast per distinct podTitle, keyed by it,
\* in the order of first appearance.
PodcastsDict(titles, n) ==
    IF n = 0 THEN <<>>
    ELSE DictSet(PodcastsDict(titles, n - 1), titles[n], titles[n])

\* SPORCDataset.search_podcast(name): the exact title, then a title equal
\* ignoring case, then a title that contains the name ignoring case.
SearchPodcast(name) ==
    /\ LET podcasts == PodcastsDict(lk.titles, Len(lk.titles))
           SameLower(podcast_name) == Lower(podcast_name) = Lower(name)
           Partial(podcast_name) == Contains(Lower(podcast_name), Lower(name))
           same == FirstItem(podcasts, SameLower)
           partial == FirstItem(podcasts, Partial)
       IN IF name \in DictKeys(podcasts)
          THEN LkReturn("search_podcast", name, name)
          ELSE IF same # <<>> THEN LkReturn("search_podcast", name, same[1][2])
          ELSE IF partial # <<>> THEN LkReturn("search_podcast", name, partial[1][2])
          ELSE LkRaise("search_podcast", name, "NotFoundError")
    /\ UNCHANGED lookupOthers

\* ParquetBackend.get_podcasts_by_category(category): list(pids) of the
\* first key that equals the category ignoring case, else [].
GetPodcastsByCategory(category) ==
    /\ LET cat_lower == Lower(category)
           Same(cat) == Lower(cat) = cat_lower
           found == FirstItem(lk.category_to_pids, Same)
       IN LkReturn("get_podcasts_by_category", category,
                   IF found # <<>> THEN found[1][2] ELSE {})
    /\ UNCHANGED lookupOthers

PodTitles == {<<"a">>, <<"A">>, <<"b">>, <<"a", "b">>, <<"A", "b">>, <<"b", "a">>}
PodNames == PodTitles \cup {<<>>, <<"B">>, <<"b", "b">>}

Categories == {<<"n">>, <<"N">>, <<"a">>}
CategoryArgs == Categories \cup {<<"A">>, <<"b">>}

\* A backend built over a podcast catalog.
InitTitleLookup ==
    /\ EpisodeFresh
    /\ WindowFresh
    /\ BuilderFresh
    /\ LazyFresh
    /\ CacheFresh
    /\ ConvertFresh
    /\ IngestFresh
    /\ \E titles \in SeqsUpTo(PodTitles, MaxPodcasts) :
          lk = [LkStart EXCEPT !.titles = titles,
                               !.title_lower_to_pid = TitleIndex(titles, Len(titles))]
    /\ call = CallNone

NextTitleLookup ==
    \/ \E name \in PodNames : GetPodcastByName(name)
    \/ \E name \in PodNames : SearchPodcast(name)

SpecTitleLookup == InitTitleLookup /\ [][NextTitleLookup]_vars

\* A backend built over a category index: rows of <<category, podcast id>>.
InitCategoryLookup ==
    /\ EpisodeFresh
    /\ WindowFresh
    /\ BuilderFresh
    /\ LazyFresh
    /\ CacheFresh
    /\ ConvertFresh
    /\ IngestFresh
    /\ \E rows \in SeqsUpTo(Categories \X (1..MaxPodcasts), MaxCategoryRows) :
          lk = [LkStart EXCEPT !.category_rows = rows,
                               !.category_to_pids = CategoryIndex(rows, Len(rows))]
    /\ call = CallNone

NextCategoryLookup ==
    \E category \in CategoryArgs : GetPodcastsByCategory(category)

SpecCategoryLookup == InitCategoryLookup /\ [][NextCategoryLookup]_vars

(* ---------------------------------------------------------------------- *)
(* Claims about the lookups by name, under SpecTitleLookup.                *)
(* ---------------------------------------------------------------------- *)
NameLookups == {"get_podcast_by_name", "search_podcast"}

\* The catalog titles equal to the name ignoring case, and those that
\* contain it ignoring case.
TitlesEqual(name) == {t \in Range(lk.titles) : Lower(t) = Lower(name)}

TitlesContaining(name) == {t \in Range(lk.titles) : Contains(Lower(t), Lower(name))}

\* C11: get_podcast_by_name(name) / search_podcast(name) returns a podcast
\* whose title equals name ignoring case whenever there is one, even if
\* other titles merely contain name; otherwise a podcast whose lowercased
\* title contains the lowercased name; and it fails with NOT_FOUND exactly
\* when no title contains the name.
C11_NameLookup ==
    lk.op \in NameLookups =>
        /\ TitlesEqual(lk.arg) # {} =>
              lk.result # <<>> /\ lk.result[1] \in TitlesEqual(lk.arg)
        /\ (TitlesEqual(lk.arg) = {} /\ TitlesContaining(lk.arg) # {}) =>
              lk.result # <<>> /\ lk.result[1] \in TitlesContaining(lk.arg)
        /\ (lk.raised = "NotFoundError") <=> (TitlesContaining(lk.arg) = {})
        /\ (lk.raised = None) <=> (lk.result # <<>>)

\* get_podcast_by_name("a") over the catalog <<"ab", "A">>: the first title
\* only contains the name, the second equals it ignoring case and is what
\* the lookup returned.
C11_Witness ==
    /\ lk.op = "get_podcast_by_name"
    /\ lk.titles = << <<"a", "b">>, <<"A">> >>
    /\ lk.arg = <<"a">>
    /\ lk.result = << <<"A">> >>

(* ---------------------------------------------------------------------- *)
(* Claims about the lookup by category, under SpecCategoryLookup.          *)
(* ---------------------------------------------------------------------- *)
\* C12 as stated: get_podcasts_by_category(c) returns the ids of all
\* podcasts that have a category-index key equal to c ignoring case, also
\* when the index holds several keys that differ only in letter case, and
\* the empty list when no key matches.
C12_CategoryLookup ==
    lk.op = "get_podcasts_by_category" =>
        lk.result[1] = {lk.category_rows[i][2] :
                           i \in {j \in 1..Len(lk.category_rows) :
                                     Lower(lk.category_rows[j][1]) = Lower(lk.arg)}}

(* ---------------------------------------------------------------------- *)
(* ParquetBackend.search_episodes over the episode catalog DataFrame.  A   *)
(* row is its duration_seconds and its host_predicted_names.  The cells of *)
(* a list column are Python lists when the DataFrame was made from Python  *)
(* objects, and numpy arrays when it was read from Parquet or Feather      *)
(* (pq.read_table(...).to_pandas(), feather.read_feather).                 *)
(* ---------------------------------------------------------------------- *)
EpisodeRows ==
    {[duration_seconds |-> d, host_predicted_names |-> h] :
        d \in {1, 2}, h \in {<<>>, << <<"a">> >>, << <<"A", "b">> >>}}

CellKinds == {"list", "ndarray"}

Durations == {Absent, Given(1), Given(2)}
HostNames == {Absent, Given(<<"a">>), Given(<<"b">>)}

\* "any(hname in str(n).lower() for n in names) if isinstance(names, list)
\* else False".
HostMask(cells, names, hname) ==
    IF cells = "list"
    THEN \E i \in 1..Len(names) : Contains(Lower(names[i]), hname)
    ELSE FALSE

\* search_episodes(min_duration=, max_duration=, host_name=): one mask after
\* the other, each only if its key is among the criteria.
SearchEpisodes(min_duration, max_duration, host_name) ==
    /\ call.op # None => call.op = "search_episodes"
    /\ LET AtLeast(row) == row.duration_seconds >= min_duration[1]
           AtMost(row) == row.duration_seconds <= max_duration[1]
           Host(row) == HostMask(call.cells, row.host_predicted_names,
                                 Lower(host_name[1]))
           df0 == call.episode_df
           df1 == IF min_duration # Absent THEN SelectSeq(df0, AtLeast) ELSE df0
           df2 == IF max_duration # Absent THEN SelectSeq(df1, AtMost) ELSE df1
           df3 == IF host_name # Absent THEN SelectSeq(df2, Host) ELSE df2
       IN call' = [call EXCEPT !.op = "search_episodes",
                               !.criteria = [min_duration |-> min_duration,
                                             max_duration |-> max_duration,
                                             host_name |-> host_name],
                               !.result = df3]
    /\ UNCHANGED callOthers

InitSearchEpisodes ==
    /\ EpisodeFresh
    /\ WindowFresh
    /\ BuilderFresh
    /\ LazyFresh
    /\ CacheFresh
    /\ ConvertFresh
    /\ IngestFresh
    /\ lk = LkStart
    /\ \E rows \in SeqsUpTo(EpisodeRows, MaxEpisodes), cells \in CellKinds :
          call = [op |-> None, episode_df |-> rows, cells |-> cells,
                  criteria |-> <<>>, result |-> <<>>]

NextSearchEpisodes ==
    \E min_duration \in Durations, max_duration \in Durations, host_name \in HostNames :
       SearchEpisodes(min_duration, max_duration, host_name)

SpecSearchEpisodes == InitSearchEpisodes /\ [][NextSearchEpisodes]_vars

(* ---------------------------------------------------------------------- *)
(* Claims about search_episodes, under SpecSearchEpisodes.                 *)
(* ---------------------------------------------------------------------- *)
\* The row satisfies every criterion that was supplied.
SatisfiesCriteria(row, criteria) ==
    /\ criteria.min_duration # Absent => row.duration_seconds >= criteria.min_duration[1]
    /\ criteria.max_duration # Absent => row.duration_seconds <= criteria.max_duration[1]
    /\ criteria.host_name # Absent =>
          \E i \in 1..Len(row.host_predicted_names) :
             Contains(Lower(row.host_predicted_names[i]), Lower(criteria.host_name[1]))

\* C13 as stated: search_episodes returns exactly the catalog episodes that
\* satisfy every supplied criterion (an absent criterion filters nothing),
\* in catalog order; with min_duration = max_duration = d these are the
\* episodes of duration exactly d that satisfy the other criteria.
C13_SearchEpisodes ==
    call.op = "search_episodes" =>
        LET Satisfies(row) == SatisfiesCriteria(row, call.criteria)
        IN call.result = SelectSeq(call.episode_df, Satisfies)

(* ---------------------------------------------------------------------- *)
(* The lazily loaded indexes of ParquetBackend, one caller.                *)
(*   parquet_backend.py: _ensure_speaker_index, _ensure_episode_metrics_df,*)
(*   _ensure_search_db, search_turns, search_episodes_by_text,             *)
(*   search_by_speaker_name, get_episode_metrics, get_turn_metrics;        *)
(*   build_indexes.py: main.                                               *)
(* index_file also records the partition's metrics.parquet, which has no   *)
(* handle.  call is the outcome of the last operation: the error raised,   *)
(* the os.path.exists calls, the file reads and the statements executed on *)
(* the DuckDB connection during it; call.n alternates with every call.     *)
(* ---------------------------------------------------------------------- *)
IndexFiles == IndexResources \cup {"turn_metrics"}

\* The variables the index operations leave alone.
indexOthers == <<episodeVars, windowVars, builderVars, cacheVars, convertVars,
                 ingestVars, lk>>

\* A message that names phase 1 whatever the index.
PhaseOneAlways(r) == "--phase 1"

\* The build_indexes.py phase named in each IndexNotBuiltError message.
PhaseNamed(r) ==
    CASE r = "speaker_index" -> "--phase 1"
      [] r = "episode_metrics" -> "--phase 2"
      [] r = "turn_metrics" -> "--phase 2"
      [] r = "search_db" -> "--phase 3"

\* build_indexes.py main: the files each phase writes.
PhaseWrites(phase) ==
    CASE phase = "--phase 1" -> {"speaker_index"}
      [] phase = "--phase 2" -> {"episode_metrics", "turn_metrics"}
      [] phase = "--phase 3" -> {"search_db"}

SearchModes == {"fts", "exact", "regex"}
ModeArgs == SearchModes \cup {"FTS", "fuzzy"}

IxOutcome == [raised |-> None, phase |-> None, checks |-> 0, reads |-> 0,
              executed |-> 0]

\* _ensure_speaker_index, _ensure_episode_metrics_df and _ensure_search_db:
\* what one call does in the current state.  opened says the handle is set by
\* this call; _ensure_search_db imports duckdb before it looks for the file
\* and executes LOAD fts on the connection it has just stored.
Ensure(r) ==
    IF handle[r] # 0
    THEN [IxOutcome EXCEPT !.raised = None] @@ [opened |-> FALSE]
    ELSE IF r = "search_db" /\ ~call.duckdb
    THEN [IxOutcome EXCEPT !.raised = "ImportError"] @@ [opened |-> FALSE]
    ELSE IF ~index_file[r]
    THEN [IxOutcome EXCEPT !.raised = "IndexNotBuiltError",
                           !.phase = PhaseNamed(r),
                           !.checks = 1] @@ [opened |-> FALSE]
    ELSE [IxOutcome EXCEPT !.checks = 1, !.reads = 1,
                           !.executed = IF r = "search_db" THEN 1 ELSE 0]
         @@ [opened |-> TRUE]

\* The state after an operation whose first statement is the _ensure_ call for
\* r and whose remainder, reached only if that call returns, raises
\* rest_raised after executing rest_executed statements.
LazyCall(op, r, mode, rest_raised, rest_executed) ==
    LET e == Ensure(r)
    IN /\ handle' = IF e.opened THEN [handle EXCEPT ![r] = 1] ELSE handle
       /\ loads' = IF e.opened THEN [loads EXCEPT ![r] = @ + 1] ELSE loads
       /\ call' = [call EXCEPT !.op = op, !.res = r, !.mode = mode,
                               !.n = 1 - call.n,
                               !.raised = IF e.raised # None THEN e.raised
                                          ELSE rest_raised,
                               !.phase = e.phase,
                               !.checks = e.checks,
                               !.reads = e.reads,
                               !.executed = IF e.raised # None THEN e.executed
                                            ELSE e.executed + rest_executed]
       /\ UNCHANGED <<index_file, thread, indexOthers>>

\* search_turns(query, mode=): _ensure_search_db(), then one SELECT for a
\* known mode and ValueError for any other.
SearchTurns(mode) ==
    /\ "duckdb" \in DOMAIN call
    /\ LazyCall("search_turns", "search_db", mode,
                IF mode \in SearchModes THEN None ELSE "ValueError",
                IF mode \in SearchModes THEN 1 ELSE 0)

\* search_episodes_by_text(query, mode=): the same shape.
SearchEpisodesByText(mode) ==
    /\ "duckdb" \in DOMAIN call
    /\ LazyCall("search_episodes_by_text", "search_db", mode,
                IF mode \in SearchModes THEN None ELSE "ValueError",
                IF mode \in SearchModes THEN 1 ELSE 0)

\* search_by_speaker_name(name): _ensure_speaker_index(), then a mask over the
\* loaded frame.
SearchBySpeakerName ==
    /\ "duckdb" \in DOMAIN call
    /\ LazyCall("search_by_speaker_name", "speaker_index", None, None, 0)

\* get_episode_metrics(episode_id): _ensure_episode_metrics_df(), then a mask.
GetEpisodeMetrics ==
    /\ "duckdb" \in DOMAIN call
    /\ LazyCall("get_episode_metrics", "episode_metrics", None, None, 0)

\* get_turn_metrics(podcast_id, episode_id): no handle; the partition's
\* metrics.parquet is looked for and read on every call.
GetTurnMetrics ==
    /\ call' = [call EXCEPT !.op = "get_turn_metrics", !.res = "turn_metrics",
                            !.mode = None, !.n = 1 - call.n,
                            !.raised = IF index_file["turn_metrics"] THEN None
                                       ELSE "IndexNotBuiltError",
                            !.phase = IF index_file["turn_metrics"] THEN None
                                      ELSE PhaseNamed("turn_metrics"),
                            !.checks = 1,
                            !.reads = IF index_file["turn_metrics"] THEN 1 ELSE 0,
                            !.executed = 0]
    /\ UNCHANGED <<lazyVars, indexOthers>>

\* python scripts/build_indexes.py --phase n, run beside the backend.
BuildIndexesMain(phase) ==
    /\ \E r \in PhaseWrites(phase) : ~index_file[r]
    /\ index_file' = [r \in IndexFiles |-> index_file[r] \/ r \in PhaseWrites(phase)]
    /\ UNCHANGED <<handle, loads, thread, call, indexOthers>>

InitIndexes ==
    /\ EpisodeFresh
    /\ WindowFresh
    /\ BuilderFresh
    /\ CacheFresh
    /\ ConvertFresh
    /\ IngestFresh
    /\ lk = LkStart
    /\ handle = [r \in Resources |-> 0]
    /\ loads = [r \in Resources |-> 0]
    /\ thread = [t \in Threads |-> ThreadIdle]
    /\ index_file = [r \in IndexFiles |-> FALSE]
    /\ \E duckdb \in BOOLEAN :
          call = IxOutcome @@ [op |-> None, res |-> None, mode |-> None,
                               n |-> 0, duckdb |-> duckdb]

NextIndexes ==
    \/ \E mode \in ModeArgs : SearchTurns(mode)
    \/ \E mode \in ModeArgs : SearchEpisodesByText(mode)
    \/ SearchBySpeakerName
    \/ GetEpisodeMetrics
    \/ GetTurnMetrics
    \/ \E phase \in {"--phase 1", "--phase 2", "--phase 3"} : BuildIndexesMain(phase)

SpecIndexes == InitIndexes /\ [][NextIndexes]_vars

(* ---------------------------------------------------------------------- *)
(* Claims about the search modes and the lazy indexes, under SpecIndexes.  *)
(* ---------------------------------------------------------------------- *)
\* C14 as stated: search_turns and search_episodes_by_text called with a mode
\* other than fts, exact and regex raise ValueError and execute no statement,
\* whether the search database is open, unopened or not built.
C14_InvalidMode ==
    (call.op \in {"search_turns", "search_episodes_by_text"}
        /\ call.mode \notin SearchModes)
    => (call.raised = "ValueError" /\ call.executed = 0)

\* What the claim says of one step; with importable, of the search database
\* only where duckdb can be imported.
LazyContract(importable) ==
    \A r \in IndexFiles :
       LET phase == IF r = "speaker_index" THEN "--phase 1"
                    ELSE IF r = "search_db" THEN "--phase 3" ELSE "--phase 2"
           step == /\ call'.n # call.n
                   /\ call'.res = r
                   /\ (importable /\ r = "search_db") => call.duckdb
           unset == r \in IndexResources => handle[r] = 0
           known == call'.mode \in SearchModes \cup {None}
       IN /\ (step /\ unset /\ ~index_file[r]) =>
                /\ call'.raised = "IndexNotBuiltError"
                /\ call'.phase = phase
                /\ handle' = handle
          /\ (step /\ unset /\ index_file[r] /\ known) =>
                /\ call'.raised = None
                /\ r \in IndexResources => handle'[r] # 0
          /\ (step /\ ~unset) =>
                /\ call'.checks = 0
                /\ call'.reads = 0
                /\ loads' = loads

\* C15 as stated: an operation whose index file is absent raises
\* IndexNotBuiltError naming the phase that builds it (1 speaker names,
\* 2 episode and turn metrics, 3 search database) and sets no handle; with the
\* file built the same call succeeds; with the handle set a call looks for no
\* file and reads none.
C15_Original ==
    [][LazyContract(FALSE)]_vars

\* C15 amended: the same, for the search database only where the duckdb
\* module can be imported; without it _ensure_search_db raises ImportError
\* before it looks for the file.
C15_LazyIndexes ==
    [][LazyContract(TRUE)]_vars

\* A text search failed for want of the search database, which has since been
\* built; the handle is still unset.
C15_Witness ==
    /\ call.res = "search_db"
    /\ call.duckdb
    /\ call.raised = "IndexNotBuiltError"
    /\ call.phase = "--phase 3"
    /\ index_file["search_db"]
    /\ handle["search_db"] = 0

(* ---------------------------------------------------------------------- *)
(* Key word in context.   parquet_backend.py: concordance                  *)
(* One turn in the search database, which the backend has open.  The turn  *)
(* text and the query are strings; an entry of the result is its           *)
(* left_context, keyword and right_context.                                *)
(* ---------------------------------------------------------------------- *)
\* str.split(): the maximal runs of non-blank characters, in order.
Split(str) ==
    LET idx == [i \in 1..Len(str) |-> i]
        IsStart(i) == str[i] # " " /\ (i = 1 \/ str[i - 1] = " ")
        IsEnd(i) == str[i] # " " /\ (i = Len(str) \/ str[i + 1] = " ")
        starts == SelectSeq(idx, IsStart)
        ends == SelectSeq(idx, IsEnd)
    IN [j \in 1..Len(starts) |-> SubSeq(str, starts[j], ends[j])]

\* " ".join(words).
RECURSIVE Join(_)
Join(words) ==
    IF words = <<>> THEN <<>>
    ELSE IF Len(words) = 1 THEN words[1]
    ELSE words[1] \o <<" ">> \o Join(Tail(words))

\* re.compile(re.escape(word), re.IGNORECASE).search(text): the offset of the
\* first occurrence whatever the case, or no match.
ReSearch(word, text) ==
    LET At(k) == SubSeq(Lower(text), k + 1, k + Len(word)) = Lower(word)
        offsets == {k \in 0..(Len(text) - Len(word)) : At(k)}
    IN IF offsets = {} THEN Absent
       ELSE Given(CHOOSE k \in offsets : \A other \in offsets : k <= other)

\* word_idx = len(text[:char_pos].split()) - 1, clamped to 0.
WordIndex(text, char_pos) ==
    LET word_idx == Len(Split(SubSeq(text, 1, char_pos))) - 1
    IN IF word_idx < 0 THEN 0 ELSE word_idx

TextChars == {"a", "A", "b", " "}
TurnTexts == SeqsUpTo(TextChars, MaxText)
QueryWords == {<<"a">>, <<"b">>, <<"a", " ", "b">>}

\* concordance(word, context_words=): the rows whose text contains the word
\* whatever the case (ILIKE), each cut around the first regex match.
Concordance(word, context_words) ==
    /\ handle["search_db"] # 0
    /\ LET text == call.turn_text
           match == ReSearch(word, text)
           words == Split(text)
           word_idx == WordIndex(text, match[1])
           kw_word_count == Len(Split(word))
           left_start == IF word_idx - context_words > 0
                         THEN word_idx - context_words ELSE 0
           right_end == word_idx + kw_word_count + context_words
           entry == [left_context |-> Join(Slice(words, left_start, word_idx)),
                     keyword |-> Join(Slice(words, word_idx, word_idx + kw_word_count)),
                     right_context |-> Join(Slice(words, word_idx + kw_word_count,
                                                  right_end))]
       IN call' = [call EXCEPT !.op = "concordance",
                               !.word = word,
                               !.context_words = context_words,
                               !.result = IF match = Absent THEN <<>>
                                          ELSE <<entry>>]
    /\ UNCHANGED <<lazyVars, indexOthers>>

InitConcordance ==
    /\ EpisodeFresh
    /\ WindowFresh
    /\ BuilderFresh
    /\ CacheFresh
    /\ ConvertFresh
    /\ IngestFresh
    /\ lk = LkStart
    /\ handle = [r \in Resources |-> IF r = "search_db" THEN 1 ELSE 0]
    /\ loads = [r \in Resources |-> IF r = "search_db" THEN 1 ELSE 0]
    /\ index_file = [r \in IndexResources |-> r = "search_db"]
    /\ thread = [t \in Threads |-> ThreadIdle]
    /\ \E text \in TurnTexts :
          call = [op |-> None, turn_text |-> text, word |-> <<>>,
                  context_words |-> 0, result |-> <<>>]

NextConcordance ==
    \E word \in QueryWords, context_words \in 0..MaxContext :
       Concordance(word, context_words)

SpecConcordance == InitConcordance /\ [][NextConcordance]_vars

(* ---------------------------------------------------------------------- *)
(* Claims about concordance, under SpecConcordance.                        *)
(* ---------------------------------------------------------------------- *)
\* C16 as stated: where the words of the query are consecutive whole words of
\* the turn text (whatever the case), concordance returns an entry whose
\* keyword is those words of the text, whose left_context is the up to
\* context_words words just before them and whose right_context is the up to
\* context_words words just after them.
C16_Concordance ==
    LET words == Split(call.turn_text)
        query == Split(call.word)
        n == Len(query)
        k == call.context_words
        WholeAt(i) == /\ i + n <= Len(words)
                      /\ \A j \in 1..n : Lower(words[i + j]) = Lower(query[j])
        Cut(i) == [left_context |-> Join(Slice(words, IF i > k THEN i - k ELSE 0, i)),
                   keyword |-> Join(Slice(words, i, i + n)),
                   right_context |-> Join(Slice(words, i + n, i + n + k))]
        places == {i \in 0..Len(words) : WholeAt(i)}
    IN (call.op = "concordance" /\ places # {}) =>
          /\ Len(call.result) = 1
          /\ \E i \in places : call.result[1] = Cut(i)

(* ---------------------------------------------------------------------- *)
(* Where a word is spoken.   parquet_backend.py: estimate_word_audio       *)
(* call.turns is the episode's rows of text.parquet in file order.  A      *)
(* result is the turn's times and text and the character offset of the     *)
(* hit, from which estimated_start, estimated_end and confidence are        *)
(* computed; Absent is None.                                               *)
(* ---------------------------------------------------------------------- *)
\* A search that finds nothing.
FindNothing(hay, needle, start) == -1

\* hay.find(needle, start): the lowest offset from start on, or -1.
Find(hay, needle, start) ==
    LET offsets == {k \in start..(Len(hay) - Len(needle)) :
                       SubSeq(hay, k + 1, k + Len(needle)) = needle}
    IN IF offsets = {} THEN -1
       ELSE CHOOSE k \in offsets : \A other \in offsets : k <= other

\* The dict returned for a hit at offset idx of the turn.
WordAudio(turn, idx) ==
    [turn_start |-> turn.start_time, turn_end |-> turn.end_time,
     turn_text |-> turn.turn_text, char_offset |-> idx]

RECURSIVE FindInTurn(_, _, _, _, _)
\* The while loop over one turn: either the function returns (done, with its
\* value) or the loop ends with the hits counted so far.
FindInTurn(turn, word, start_search, found_count, occurrence) ==
    LET text == turn.turn_text
        idx == Find(Lower(text), Lower(word), start_search)
        turn_duration == turn.end_time - turn.start_time
    IN IF idx = -1 THEN [done |-> FALSE, found_count |-> found_count]
       ELSE IF found_count = occurrence
       THEN [done |-> TRUE,
             value |-> IF turn_duration <= 0 \/ Len(text) = 0 THEN Absent
                       ELSE Given(WordAudio(turn, idx))]
       ELSE FindInTurn(turn, word, idx + 1, found_count + 1, occurrence)

RECURSIVE FindInTurns(_, _, _, _)
\* The for loop over the turns; None when it ends.
FindInTurns(turns, word, found_count, occurrence) ==
    IF turns = <<>> THEN Absent
    ELSE LET r == FindInTurn(Head(turns), word, 0, found_count, occurrence)
         IN IF r.done THEN r.value
            ELSE FindInTurns(Tail(turns), word, r.found_count, occurrence)

SpokenTexts == {<<>>, <<"a">>, <<"b">>, <<"A", "a">>, <<"a", "b", "A">>}
SpokenTimes == {<<0, 1>>, <<1, 1>>, <<1, 3>>}
SpokenTurns == {[start_time |-> t[1], end_time |-> t[2], turn_text |-> text] :
                   t \in SpokenTimes, text \in SpokenTexts}
SpokenWords == {<<>>, <<"a">>, <<"a", "A">>, <<"B">>}

\* estimate_word_audio(podcast_id, episode_id, word, occurrence=): the turns
\* by start time (get_turns_for_episode), then the scan.
EstimateWordAudio(word, occurrence) ==
    /\ "turns" \in DOMAIN call
    /\ call' = [call EXCEPT !.op = "estimate_word_audio",
                            !.word = word,
                            !.occurrence = occurrence,
                            !.result = FindInTurns(SortByStart(call.turns), word,
                                                   0, occurrence)]
    /\ UNCHANGED callOthers

InitWordAudio ==
    /\ EpisodeFresh
    /\ WindowFresh
    /\ BuilderFresh
    /\ LazyFresh
    /\ CacheFresh
    /\ ConvertFresh
    /\ IngestFresh
    /\ lk = LkStart
    /\ \E turns \in SeqsUpTo(SpokenTurns, MaxSpokenTurns) :
          call = [op |-> None, turns |-> turns, word |-> <<>>, occurrence |-> 0,
                  result |-> Absent]

NextWordAudio ==
    \E word \in SpokenWords, occurrence \in 0..MaxOccurrence :
       EstimateWordAudio(word, occurrence)

SpecWordAudio == InitWordAudio /\ [][NextWordAudio]_vars

(* ---------------------------------------------------------------------- *)
(* Claims about estimate_word_audio, under SpecWordAudio.                  *)
(* ---------------------------------------------------------------------- *)
\* The hits of the word over the turns in start-time order, each as
\* <<turn, offset>>, left to right within a turn.
Hits(turns, word) ==
    LET ordered == SortByStart(turns)
        HitsIn(i) ==
            LET text == ordered[i].turn_text
                At(k) == /\ k + Len(word) <= Len(text)
                         /\ Lower(SubSeq(text, k + 1, k + Len(word))) = Lower(word)
            IN SelectSeq([j \in 1..(Len(text) + 1) |-> <<ordered[i], j - 1>>],
                         LAMBDA hit : At(hit[2]))
    IN Concat([i \in 1..Len(ordered) |-> HitsIn(i)])

\* What the claim says of the last call; with empty_text, a hit in a turn
\* without text also gives null.
WordAudioContract(empty_text) ==
    call.op = "estimate_word_audio" =>
        LET hits == Hits(call.turns, call.word)
            hit == hits[call.occurrence + 1]
            turn == hit[1]
        IN IF call.occurrence >= Len(hits) THEN call.result = Absent
           ELSE IF turn.end_time - turn.start_time <= 0 THEN call.result = Absent
           ELSE IF empty_text /\ turn.turn_text = <<>> THEN call.result = Absent
           ELSE call.result = Given(WordAudio(turn, hit[2]))

\* C17 as stated: estimate_word_audio(word, occurrence=k) is null when k is at
\* least the number of hits of the word, whatever the case, over the episode's
\* turns; otherwise it describes the turn of the k-th hit (from 0, turns by
\* start time, hits left to right), or is null if that turn's duration is not
\* positive.
C17_Original == WordAudioContract(FALSE)

\* C17 amended: the same, and null also when the turn of the k-th hit has an
\* empty text (the hit of an empty word).
C17_WordAudio == WordAudioContract(TRUE)

\* The second hit of a word lies in a later turn than the first and is
\* described.
C17_Witness ==
    /\ call.op = "estimate_word_audio"
    /\ call.occurrence = 1
    /\ call.word = <<"a">>
    /\ Len(call.turns) = 2
    /\ call.result # Absent
    /\ call.result[1].turn_text # SortByStart(call.turns)[1].turn_text

(* ---------------------------------------------------------------------- *)
(* The value coercers on any decoded JSON value.                           *)
(*   convert_to_parquet.py: safe_str, safe_float, safe_int, safe_list      *)
(* A value is its kind (null, bool, int, float, str, list, dict), its      *)
(* number as a numeral, its text as characters and its items.  "big" is an *)
(* integer beyond the range of a float.  A sentinel string is one          *)
(* character of its own.                                                   *)
(* ---------------------------------------------------------------------- *)
JVal(kind, num, text, items) == [kind |-> kind, num |-> num, text |-> text, items |-> items]
JNull == JVal("null", "", <<>>, <<>>)
JBool(num) == JVal("bool", num, <<>>, <<>>)
JInt(num) == JVal("int", num, <<>>, <<>>)
JFloat(num) == JVal("float", num, <<>>, <<>>)
JStr(text) == JVal("str", "", text, <<>>)
JList(items) == JVal("list", "", <<>>, items)
JDict(keys) == JVal("dict", "", <<>>, keys)

Sentinels == {"NO_HOST_PREDICTED", "NO_GUEST_PREDICTED", "NO_NEITHER_IDENTIFIED",
              "SPEAKER_DATA_UNAVAILABLE"}

\* float(x) of a numeral, and float(s) of a stripped string: no value for a
\* string that is not a number.
FloatOfText(text) ==
    CASE text = <<"0">> -> Given("0")
      [] text = <<"1">> -> Given("1")
      [] text = <<"-", "1">> -> Given("-1")
      [] text = <<"1", ".", "5">> -> Given("1.5")
      [] text = <<"i", "n", "f">> -> Given("inf")
      [] text = <<"n", "a", "n">> -> Given("nan")
      [] text = <<"1", "e", "9", "9", "9">> -> Given("inf")
      [] OTHER -> Absent

\* int(x) of a finite float: towards zero.
Trunc(num) == IF num = "1.5" THEN "1" ELSE num

\* bool(val) is False.
Falsy(val) ==
    \/ val.kind = "null"
    \/ val.kind \in {"bool", "int", "float"} /\ val.num = "0"
    \/ val.kind = "str" /\ val.text = <<>>
    \/ val.kind \in {"list", "dict"} /\ val.items = <<>>

\* The characters of a numeral.
NumeralText(num) ==
    CASE num = "0" -> <<"0">>
      [] num = "1" -> <<"1">>
      [] num = "-1" -> <<"-", "1">>
      [] num = "1.5" -> <<"1", ".", "5">>
      [] num = "inf" -> <<"i", "n", "f">>
      [] num = "nan" -> <<"n", "a", "n">>
      [] num = "big" -> <<"1", "0", "0", "0">>

\* str(val) of a value that is not None.
StrOf(val) ==
    CASE val.kind = "str" -> val.text
      [] val.kind = "bool" -> IF val.num = "1" THEN <<"T", "r", "u", "e">>
                              ELSE <<"F", "a", "l", "s", "e">>
      [] val.kind = "int" -> NumeralText(val.num)
      [] val.kind = "float" -> IF val.num \in {"0", "1", "-1"}
                               THEN NumeralText(val.num) \o <<".", "0">>
                               ELSE NumeralText(val.num)
      [] val.kind = "list" ->
            <<"[">> \o Concat([i \in 1..Len(val.items) |->
                                  (IF i > 1 THEN <<",", " ">> ELSE <<>>)
                                  \o <<"'">> \o val.items[i].text \o <<"'">>])
            \o <<"]">>
      [] val.kind = "dict" ->
            <<"{">> \o Concat([i \in 1..Len(val.items) |->
                                  (IF i > 1 THEN <<",", " ">> ELSE <<>>)
                                  \o <<"'">> \o val.items[i].text \o <<"'", ":", " ", "1">>])
            \o <<"}">>

Returned(value) == [raised |-> None, value |-> value]
Raised(error) == [raised |-> error, value |-> JNull]

\* float(val): the float, or the exception.
PyFloat(val) ==
    CASE val.kind \in {"bool", "float"} -> Returned(JFloat(val.num))
      [] val.kind = "int" -> IF val.num = "big" THEN Raised("OverflowError")
                             ELSE Returned(JFloat(val.num))
      [] val.kind = "str" -> IF FloatOfText(Strip(val.text)) = Absent
                             THEN Raised("ValueError")
                             ELSE Returned(JFloat(FloatOfText(Strip(val.text))[1]))
      [] OTHER -> Raised("TypeError")

\* int(x) of a float.
PyInt(x) ==
    CASE x.num = "inf" -> Raised("OverflowError")
      [] x.num = "nan" -> Raised("ValueError")
      [] OTHER -> Returned(JInt(Trunc(x.num)))

\* try: ... except (ValueError, TypeError): return default.
ExceptValueTypeError(outcome, default) ==
    IF outcome.raised \in {"ValueError", "TypeError"} THEN Returned(default)
    ELSE outcome

\* safe_str(val, default="").
SafeStr(val) ==
    IF val.kind = "null" THEN Returned(JStr(<<>>))
    ELSE IF Falsy(val) THEN Returned(JStr(<<>>))
    ELSE Returned(JStr(Strip(StrOf(val))))

\* safe_float(val, default=0.0).
SafeFloat(val) ==
    IF val.kind = "null" THEN Returned(JFloat("0"))
    ELSE ExceptValueTypeError(PyFloat(val), JFloat("0"))

\* safe_int(val, default=0).
SafeInt(val) ==
    IF val.kind = "null" THEN Returned(JInt("0"))
    ELSE ExceptValueTypeError(IF PyFloat(val).raised # None THEN PyFloat(val)
                              ELSE PyInt(PyFloat(val).value),
                              JInt("0"))

\* json.loads of a string that starts with "[" and ends with "]": the list,
\* or no value for a JSONDecodeError.
JsonLoadsList(text) ==
    CASE text = <<"[", "]">> -> Given(JList(<<>>))
      [] text = <<"[", "1", "]">> -> Given(JList(<<JInt("1")>>))
      [] OTHER -> Absent

\* safe_list(val).
SafeList(val) ==
    CASE val.kind = "null" -> Returned(JList(<<>>))
      [] val.kind = "list" -> Returned(val)
      [] val.kind = "str" ->
            IF Len(val.text) = 1 /\ val.text[1] \in Sentinels THEN Returned(JList(<<>>))
            ELSE IF /\ val.text # <<>>
                    /\ Head(val.text) = "[" /\ val.text[Len(val.text)] = "]"
                    /\ JsonLoadsList(val.text) # Absent
            THEN Returned(JsonLoadsList(val.text)[1])
            ELSE IF Strip(val.text) # <<>> THEN Returned(JList(<<val>>))
            ELSE Returned(JList(<<>>))
      [] val.kind = "dict" -> Returned(JList(val.items))
      [] OTHER -> Returned(JList(<<val>>))

JsonNumbers == {JInt(n) : n \in {"0", "1", "-1", "big"}}
                   \cup {JFloat(n) : n \in {"0", "1.5", "inf", "nan"}}
JsonStrings == {JStr(t) : t \in {<<>>, <<" ">>, <<"a">>, <<" ", "a">>, <<"1">>,
                                 <<" ", "1", " ">>, <<"i", "n", "f">>,
                                 <<"n", "a", "n">>, <<"1", "e", "9", "9", "9">>,
                                 <<"[", "]">>, <<"[", "1", "]">>, <<"[", "a", "]">>,
                                 <<"[">>}}
                   \cup {JStr(<<t>>) : t \in Sentinels}
JsonValues ==
    {JNull, JBool("1"), JBool("0")} \cup JsonNumbers \cup JsonStrings
        \cup {JList(<<>>), JList(<<JStr(<<"a">>)>>),
              JList(<<JStr(<<"a">>), JStr(<<"NO_HOST_PREDICTED">>)>>),
              JDict(<<>>), JDict(<<JStr(<<"a">>)>>)}

Coercers == {"safe_str", "safe_float", "safe_int", "safe_list"}

\* One coercer applied to the value.
Coerce(fn) ==
    /\ "val" \in DOMAIN call
    /\ LET outcome == CASE fn = "safe_str" -> SafeStr(call.val)
                        [] fn = "safe_float" -> SafeFloat(call.val)
                        [] fn = "safe_int" -> SafeInt(call.val)
                        [] fn = "safe_list" -> SafeList(call.val)
       IN call' = [call EXCEPT !.op = fn, !.raised = outcome.raised,
                               !.result = outcome.value]
    /\ UNCHANGED callOthers

InitCoerce ==
    /\ EpisodeFresh
    /\ WindowFresh
    /\ BuilderFresh
    /\ LazyFresh
    /\ CacheFresh
    /\ ConvertFresh
    /\ IngestFresh
    /\ lk = LkStart
    /\ \E val \in JsonValues :
          call = [op |-> None, val |-> val, raised |-> None, result |-> JNull]

NextCoerce == \E fn \in Coercers : Coerce(fn)

SpecCoerce == InitCoerce /\ [][NextCoerce]_vars

(* ---------------------------------------------------------------------- *)
(* Claims about the coercers, under SpecCoerce.                            *)
(* ---------------------------------------------------------------------- *)
\* C18 as stated: whatever the decoded JSON value (null, a boolean, a finite
\* or non-finite number, a numeric or other string, a list, an object), each
\* of safe_str, safe_float, safe_int and safe_list raises nothing and returns
\* a value of its type: str, float, int, list.
C18_CoercersTotal ==
    call.op \in Coercers =>
        /\ call.raised = None
        /\ call.result.kind = CASE call.op = "safe_str" -> "str"
                                [] call.op = "safe_float" -> "float"
                                [] call.op = "safe_int" -> "int"
                                [] call.op = "safe_list" -> "list"

(* ---------------------------------------------------------------------- *)
(* The speaker-name lists of a source record.                              *)
(*   dataset.py: _create_episode_from_dict                                 *)
(*   convert_to_parquet.py: phase1_episodes (the episode catalog row)      *)
(* call.rec is the record's value under each of the four keys; a key the   *)
(* record lacks has the value JMissing.  The object built is its four      *)
(* lists.                                                                  *)
(* ---------------------------------------------------------------------- *)
JMissing == JVal("missing", "", <<>>, <<>>)

NameKeys == {"hostPredictedNames", "guestPredictedNames", "neitherPredictedNames",
             "mainEpSpeakers"}

\* The one sentinel _create_episode_from_dict compares each key's string with.
OwnSentinel(key) ==
    CASE key = "hostPredictedNames" -> "NO_HOST_PREDICTED"
      [] key = "guestPredictedNames" -> "NO_GUEST_PREDICTED"
      [] key = "neitherPredictedNames" -> "NO_NEITHER_IDENTIFIED"
      [] key = "mainEpSpeakers" -> "SPEAKER_DATA_UNAVAILABLE"

\* The attribute of Episode and the column of the catalog row for each key.
NameField(key) ==
    CASE key = "hostPredictedNames" -> "host_predicted_names"
      [] key = "guestPredictedNames" -> "guest_predicted_names"
      [] key = "neitherPredictedNames" -> "neither_predicted_names"
      [] key = "mainEpSpeakers" -> "main_ep_speakers"

\* episode_dict.get(key, []), then the isinstance(..., str) branch.
NamesFromDict(rec, key) ==
    LET names == rec[key]
    IN IF names.kind = "missing" THEN <<>>
       ELSE IF names.kind = "str"
       THEN IF names.text = <<OwnSentinel(key)>> THEN <<>> ELSE <<names>>
       ELSE names.items

\* _create_episode_from_dict(episode_dict): the Episode's four lists.
CreateEpisodeFromDict ==
    /\ "rec" \in DOMAIN call
    /\ call' = [call EXCEPT
                   !.op = "_create_episode_from_dict",
                   !.built = [f \in {NameField(key) : key \in NameKeys} |->
                                 NamesFromDict(call.rec,
                                               CHOOSE key \in NameKeys : NameField(key) = f)]]
    /\ UNCHANGED callOthers

\* phase1_episodes: safe_list(rec.get(key)) in the episode catalog row.
CatalogRow ==
    /\ "rec" \in DOMAIN call
    /\ LET Got(key) == IF call.rec[key].kind = "missing" THEN JNull ELSE call.rec[key]
       IN call' = [call EXCEPT
                      !.op = "phase1_episodes",
                      !.built = [f \in {NameField(key) : key \in NameKeys} |->
                                    SafeList(Got(CHOOSE key \in NameKeys :
                                                    NameField(key) = f)).value.items]]
    /\ UNCHANGED callOthers

NameValues == {JMissing, JStr(<<"a">>), JList(<<JStr(<<"a">>)>>)}
                  \cup {JStr(<<t>>) : t \in Sentinels}

InitNames ==
    /\ EpisodeFresh
    /\ WindowFresh
    /\ BuilderFresh
    /\ LazyFresh
    /\ CacheFresh
    /\ ConvertFresh
    /\ IngestFresh
    /\ lk = LkStart
    /\ \E rec \in [NameKeys -> NameValues] :
          call = [op |-> None, rec |-> rec, built |-> <<>>]

NextNames ==
    \/ CreateEpisodeFromDict
    \/ CatalogRow

SpecNames == InitNames /\ [][NextNames]_vars

(* ---------------------------------------------------------------------- *)
(* Claims about the speaker-name lists, under SpecNames.                   *)
(* ---------------------------------------------------------------------- *)
\* C19 as stated: no list of host, guest, neither or main-speaker names of an
\* Episode or of a catalog row built from a record has one of the four
\* sentinel strings as an element, and a list whose key held a sentinel,
\* whichever of the four, is empty.
C19_NoSentinelNames ==
    call.op # None =>
        \A key \in NameKeys :
           LET names == call.built[NameField(key)]
           IN /\ \A i \in 1..Len(names) :
                    ~(names[i].kind = "str" /\ Len(names[i].text) = 1
                         /\ names[i].text[1] \in Sentinels)
              /\ (call.rec[key].kind = "str" /\ Len(call.rec[key].text) = 1
                     /\ call.rec[key].text[1] \in Sentinels) => names = <<>>

(* ---------------------------------------------------------------------- *)
(* The turn-dependent operations of Episode (episode.py).                  *)
(* The k-th turn of the list runs from second k - 1 to second k, has k     *)
(* words and is spoken by the host when k is odd, by the guest otherwise;  *)
(* the episode lasts MaxTurns seconds.  call is the outcome of the last    *)
(* operation; call.n alternates with every call.  A generator              *)
(* (sliding_window, sliding_window_by_time) is taken to its first next().  *)
(* ---------------------------------------------------------------------- *)
TurnRole(k) == IF k % 2 = 1 THEN "host" ELSE "guest"

TurnOutcome(op, raised, result) ==
    [op |-> op, raised |-> raised, result |-> result, n |-> 1 - call.n]

\* The check every operation starts with: RuntimeError("Turns not loaded.
\* Call load_turns() first."), else what the body gives.
IfLoaded(op, raised, result) ==
    IF ~ep_turns_loaded THEN TurnOutcome(op, "RuntimeError", <<>>)
    ELSE TurnOutcome(op, raised, result)

\* load_turns(turns_data) that raises while it builds turn n + 1: the list
\* was emptied and has the n turns appended so far; the flag is not touched.
LoadTurnsRaises(n) ==
    /\ ~ep_turns_loaded
    /\ ep_turns # TurnList(n)
    /\ ep_turns' = TurnList(n)
    /\ UNCHANGED <<ep_turns_loaded, windowVars, builderVars, episodeOthers>>

\* episode.turns, get_all_turns(), iter(episode): the list.
ReadTurns(op) ==
    /\ op \in {"turns", "get_all_turns", "__iter__"}
    /\ call' = IfLoaded(op, None, ep_turns)
    /\ UNCHANGED callOthers

\* episode.turn_count, len(episode): the length.
CountTurns(op) ==
    /\ op \in {"turn_count", "__len__"}
    /\ call' = IfLoaded(op, None, <<Len(ep_turns)>>)
    /\ UNCHANGED callOthers

\* episode[index] for index >= 0.
GetItem(index) ==
    /\ call' = IF index < Len(ep_turns)
               THEN IfLoaded("__getitem__", None, <<ep_turns[index + 1]>>)
               ELSE IfLoaded("__getitem__", "IndexError", <<>>)
    /\ UNCHANGED callOthers

\* get_turns_by_role(role), get_turns_by_speaker(name) with the role as the
\* name, get_host_turns() and get_guest_turns().
SelectTurns(op, role) ==
    /\ op = "get_host_turns" => role = "host"
    /\ op = "get_guest_turns" => role = "guest"
    /\ LET Keep(k) == TurnRole(k) = role
       IN call' = IfLoaded(op, None, SelectSeq(ep_turns, Keep))
    /\ UNCHANGED callOthers

\* get_turns_by_min_length(min_length).
GetTurnsByMinLength(min_length) ==
    /\ LET Keep(k) == k >= min_length
       IN call' = IfLoaded("get_turns_by_min_length", None, SelectSeq(ep_turns, Keep))
    /\ UNCHANGED callOthers

\* get_turns_by_time_range(start_time, end_time, behavior) and
\* get_turns_by_time_range_with_trimming (whose entries are these turns,
\* untrimmed) for the behaviors STRICT and INCLUDE_FULL_TURNS.
TurnsByTimeRange(op, start_time, end_time, behavior) ==
    /\ op \in {"get_turns_by_time_range", "get_turns_by_time_range_with_trimming"}
    /\ LET to == Min(end_time, MaxTurns)
           Keep(k) == IF behavior = "STRICT" THEN k - 1 >= start_time /\ k <= to
                      ELSE k - 1 < to /\ k > start_time
       IN call' = IfLoaded(op, None, SelectSeq(ep_turns, Keep))
    /\ UNCHANGED callOthers

\* sliding_window(window_size, overlap) and sliding_window_by_time(
\* window_duration, overlap_duration) up to the first window, and
\* get_window_statistics(window_size, overlap): the checks of the arguments,
\* then the number of windows.
WindowOperation(op, window_size, overlap) ==
    /\ op \in {"sliding_window", "sliding_window_by_time", "get_window_statistics"}
    /\ LET step_size == window_size - overlap
           total == IF op = "sliding_window_by_time" THEN MaxTurns ELSE Len(ep_turns)
           bad == \/ window_size <= overlap
                  \/ op # "get_window_statistics" /\ (window_size <= 0 \/ overlap < 0)
                  \/ op = "sliding_window" /\ Len(ep_turns) = 0
           total_windows == Max(1, FloorDiv(total - window_size, step_size) + 1)
       IN call' = IF bad THEN IfLoaded(op, "ValueError", <<>>)
                  ELSE IfLoaded(op, None, <<total_windows>>)
    /\ UNCHANGED callOthers

\* get_turn_statistics(): total_turns, total_words and role_distribution.
GetTurnStatistics ==
    /\ LET IsHost(k) == TurnRole(k) = "host"
           IsGuest(k) == TurnRole(k) = "guest"
           stats == [total_turns |-> Len(ep_turns),
                     total_words |-> SumOver([k \in Range(ep_turns) |-> k],
                                             Range(ep_turns)),
                     role_distribution |-> <<Len(SelectSeq(ep_turns, IsHost)),
                                             Len(SelectSeq(ep_turns, IsGuest))>>]
       IN call' = IfLoaded("get_turn_statistics", None, stats)
    /\ UNCHANGED callOthers

InitTurnOps ==
    /\ EpisodeFresh
    /\ WindowFresh
    /\ BuilderFresh
    /\ LazyFresh
    /\ CacheFresh
    /\ ConvertFresh
    /\ IngestFresh
    /\ lk = LkStart
    /\ call = [op |-> None, raised |-> None, result |-> <<>>, n |-> 0]

NextTurnOps ==
    \/ \E n \in 0..MaxTurns : LoadTurns(n)
    \/ \E n \in 0..MaxTurns : LoadTurnsRaises(n)
    \/ \E op \in {"turns", "get_all_turns", "__iter__"} : ReadTurns(op)
    \/ \E op \in {"turn_count", "__len__"} : CountTurns(op)
    \/ \E index \in 0..MaxTurns : GetItem(index)
    \/ \E op \in {"get_turns_by_role", "get_turns_by_speaker", "get_host_turns",
                  "get_guest_turns"},
          role \in {"host", "guest"} : SelectTurns(op, role)
    \/ \E min_length \in 0..MaxTurns : GetTurnsByMinLength(min_length)
    \/ \E op \in {"get_turns_by_time_range", "get_turns_by_time_range_with_trimming"},
          start_time \in 0..2, end_time \in {1, MaxTurns + 1},
          behavior \in {"STRICT", "INCLUDE_FULL_TURNS"} :
             TurnsByTimeRange(op, start_time, end_time, behavior)
    \/ \E op \in {"sliding_window", "sliding_window_by_time", "get_window_statistics"},
          window_size \in 0..2, overlap \in 0..1 :
             WindowOperation(op, window_size, overlap)
    \/ GetTurnStatistics

SpecTurnOps == InitTurnOps /\ [][NextTurnOps]_vars

(* ---------------------------------------------------------------------- *)
(* Claims about the turn-dependent operations, under SpecTurnOps.          *)
(* ---------------------------------------------------------------------- *)
TurnOperations ==
    {"turns", "turn_count", "get_all_turns", "__len__", "__getitem__", "__iter__",
     "get_turns_by_time_range", "get_turns_by_time_range_with_trimming",
     "get_turns_by_speaker", "get_turns_by_role", "get_turns_by_min_length",
     "get_host_turns", "get_guest_turns", "sliding_window", "sliding_window_by_time",
     "get_window_statistics", "get_turn_statistics"}

RequiredFiles == <<"podcast_catalog", "episode_catalog", "category_index",
                   "hostname_index">>

\* pq.read_table(path): what it raises.
ReadTableRaises(state) ==
    CASE state = "ok" -> None
      [] state = "missing" -> "FileNotFoundError"
      [] state = "corrupt" -> "ArrowInvalid"

\* _build_indexes(): the error of the first file that cannot be read.
BuildIndexesRaises(files) ==
    LET Bad(name) == files[name] # "ok"
        bad == SelectSeq(RequiredFiles, Bad)
    IN IF bad = <<>> THEN None ELSE ReadTableRaises(files[bad[1]])

\* ParquetBackend(data_dir): the isdir test, the cache, else _build_indexes
\* and _save_cache (which raises nothing).
BackendInit ==
    /\ "meta_dir" \in DOMAIN call
    /\ call' = [call EXCEPT
                   !.op = "__init__",
                   !.raised = IF ~call.meta_dir THEN "DatasetAccessError"
                              ELSE IF call.cache = "valid" THEN None
                              ELSE BuildIndexesRaises(call.files)]
    /\ UNCHANGED callOthers

\* Without the directory there is neither file nor cache; a cache whose
\* fingerprint matches was written from catalogs that are all still there,
\* though their content may since have become unreadable.
InitBackendInit ==
    /\ EpisodeFresh
    /\ WindowFresh
    /\ BuilderFresh
    /\ LazyFresh
    /\ CacheFresh
    /\ ConvertFresh
    /\ IngestFresh
    /\ lk = LkStart
    /\ \E meta_dir \in BOOLEAN,
          files \in [Range(RequiredFiles) -> {"ok", "missing", "corrupt"}],
          cache \in {"absent", "valid", "version", "fingerprint", "unreadable"} :
          /\ ~meta_dir => cache = "absent" /\ \A name \in DOMAIN files : files[name] = "missing"
          /\ cache = "valid" => \A name \in DOMAIN files : files[name] # "missing"
          /\ call = [op |-> None, meta_dir |-> meta_dir, files |-> files,
                     cache |-> cache, raised |-> None]

NextBackendInit == BackendInit

SpecBackendInit == InitBackendInit /\ [][NextBackendInit]_vars

(* ---------------------------------------------------------------------- *)
(* Claims about backend construction, under SpecBackendInit.               *)
(* ---------------------------------------------------------------------- *)
\* C22 as stated: ParquetBackend(data_dir) raises DatasetAccessError when the
\* metadata directory is missing, or when no valid cache exists and one of
\* podcast_catalog, episode_catalog, category_index, hostname_index is
\* missing or unreadable; and it raises no other kind of error.
C22_DatasetAccessError ==
    call.op = "__init__" =>
        /\ (\/ ~call.meta_dir
            \/ /\ call.cache # "valid"
               /\ \E name \in DOMAIN call.files : call.files[name] # "ok")
           => call.raised = "DatasetAccessError"
        /\ call.raised \in {None, "DatasetAccessError"}

(* ---------------------------------------------------------------------- *)
(* Claims about the order of the windows, under SpecWindow.                *)
(* ---------------------------------------------------------------------- *)
\* C23: the windows sliding_window has emitted so far carry window_index
\* 0, 1, 2, ... in the order of emission, their start_index never decreases,
\* is_first holds of the first emitted window only, is_last holds of none but
\* the last emitted one, and of that one once the generator has returned.
C23_WindowOrder ==
    /\ \A i \in 1..Len(sw_windows) :
          /\ sw_windows[i].window_index = i - 1
          /\ is_first(sw_windows[i]) <=> i = 1
          /\ is_last(sw_windows[i]) => i = Len(sw_windows)
    /\ \A i \in 1..(Len(sw_windows) - 1) :
          sw_windows[i].start_index <= sw_windows[i + 1].start_index
    /\ (sw.pc = "done" /\ sw_windows # <<>>) => is_last(sw_windows[Len(sw_windows)])

\* A call with overlapping windows has returned after three windows.
C23_Witness ==
    /\ sw.pc = "done"
    /\ sw.overlap > 0
    /\ Len(sw_windows) = 3
    /\ is_last(sw_windows[3])

(* ---------------------------------------------------------------------- *)
(* Index phase 3.   build_indexes.py: build_duckdb_search                  *)
(* call.partitions is the turn_text column of each partition's             *)
(* text.parquet in the sorted order of the partition directories: "text",  *)
(* "empty" or "null" per row.  call.turns is the turns table in insertion  *)
(* order; a row is its row_id and the partition and row it came from.      *)
(* ---------------------------------------------------------------------- *)
\* A counter that stays where it is.
KeepRowId(start_id, n_rows) == start_id

\* next_row_id[0] += n_rows.
AdvanceRowId(start_id, n_rows) == start_id + n_rows

\* INSERT INTO turns SELECT start_id + row_number() OVER () ... WHERE
\* turn_text IS NOT NULL AND turn_text != '': the rows added, numbered after
\* the filter.
InsertSelect(start_id, p, texts) ==
    LET Kept(j) == texts[j] = "text"
        kept == SelectSeq([j \in 1..Len(texts) |-> j], Kept)
    IN [k \in 1..Len(kept) |-> [row_id |-> start_id + k, partition |-> p, row |-> kept[k]]]

\* One iteration of the loop over the partition directories.  outcome is
\* what happens to this partition: there is no text.parquet; the read or the
\* INSERT raises (the statement inserts nothing); or the rows are inserted.
Phase3Partition(outcome) ==
    /\ "partitions" \in DOMAIN call
    /\ call.pc = "partitions"
    /\ call.i <= Len(call.partitions)
    /\ call' = IF outcome = "inserted"
               THEN [call EXCEPT
                        !.i = @ + 1,
                        !.turns = @ \o InsertSelect(call.next_row_id, call.i,
                                                    call.partitions[call.i]),
                        !.next_row_id = AdvanceRowId(@, Len(call.partitions[call.i])),
                        !.skipped = @]
               ELSE [call EXCEPT !.i = @ + 1, !.skipped = @ \cup {call.i}]
    /\ UNCHANGED callOthers

\* After the loop: the indexes, the FTS index, the count and close().
Phase3Finish ==
    /\ "partitions" \in DOMAIN call
    /\ call.pc = "partitions"
    /\ call.i > Len(call.partitions)
    /\ call' = [call EXCEPT !.pc = "done"]
    /\ UNCHANGED callOthers

PartitionTexts == {<<>>, <<"text">>, <<"text", "empty">>, <<"null", "text">>,
                   <<"text", "text">>}
PartitionOutcomes == {"inserted", "no_file", "read_raises", "insert_raises"}

InitPhase3 ==
    /\ EpisodeFresh
    /\ WindowFresh
    /\ BuilderFresh
    /\ LazyFresh
    /\ CacheFresh
    /\ ConvertFresh
    /\ IngestFresh
    /\ lk = LkStart
    /\ \E partitions \in SeqsUpTo(PartitionTexts, MaxPartitions) :
          call = [op |-> "build_duckdb_search", pc |-> "partitions",
                  partitions |-> partitions, i |-> 1, next_row_id |-> 0,
                  turns |-> <<>>, skipped |-> {}]

NextPhase3 ==
    \/ \E outcome \in PartitionOutcomes : Phase3Partition(outcome)
    \/ Phase3Finish

SpecPhase3 == InitPhase3 /\ [][NextPhase3]_vars

(* ---------------------------------------------------------------------- *)
(* Claims about the turns table, under SpecPhase3.                         *)
(* ---------------------------------------------------------------------- *)
\* C24: during and after phase 3 the row_id values of the turns table
\* strictly increase in insertion order, hence are pairwise distinct,
\* whichever rows were left out for a null or empty turn_text and whichever
\* partitions were skipped because loading them failed.
C24_RowIds ==
    call.op = "build_duckdb_search" =>
        /\ \A i \in 1..(Len(call.turns) - 1) :
              call.turns[i].row_id < call.turns[i + 1].row_id
        /\ \A i, j \in 1..Len(call.turns) :
              i # j => call.turns[i].row_id # call.turns[j].row_id

\* Phase 3 is over; the second of three partitions failed, a row without
\* text was left out of the first, and rows of the first and the third are
\* in the table.
C24_Witness ==
    /\ call.op = "build_duckdb_search"
    /\ call.pc = "done"
    /\ Len(call.partitions) = 3
    /\ call.skipped = {2}
    /\ call.partitions[1] = <<"null", "text">>
    /\ \E i, j \in 1..Len(call.turns) :
          call.turns[i].partition = 1 /\ call.turns[j].partition = 3

(* ---------------------------------------------------------------------- *)
(* Index phase 2.   build_indexes.py: build_episode_and_turn_metrics       *)
(* call.rows is one partition's text.parquet in file order.  Times are     *)
(* whole seconds, so round(x, 4) changes nothing; an end_time of 0 is a    *)
(* row whose end_time is null or zero.                                     *)
(* ---------------------------------------------------------------------- *)
MetricRow(episode_id, speaker, start_time, end_time, turn_count) ==
    [episode_id |-> episode_id, speaker |-> speaker, start_time |-> start_time,
     end_time |-> end_time, turn_count |-> turn_count]

\* ep_rows[eid], sorted by start_time (a stable sort).
ep_rows(rows, eid) ==
    LET OfEpisode(r) == r.episode_id = eid
    IN SortByStart(SelectSeq(rows, OfEpisode))

RECURSIVE prev_end(_, _)
\* prev_end when the loop reaches the j-th turn of the episode: None before
\* the first turn; after a turn, its end if that is > 0, else what it was.
prev_end(turns, j) ==
    IF j <= 1 THEN Absent
    ELSE IF turns[j - 1].end_time > 0 THEN Given(turns[j - 1].end_time)
    ELSE prev_end(turns, j - 1)

\* The gap / overlap block: both None unless prev_end is set and st > 0.
GapOverlap(prev, st) ==
    IF prev # Absent /\ st > 0
    THEN LET diff == st - prev[1]
         IN IF diff >= 0
            THEN [gap_from_prev |-> Given(diff), overlap_with_prev |-> Given(0)]
            ELSE [gap_from_prev |-> Given(0), overlap_with_prev |-> Given(0 - diff)]
    ELSE [gap_from_prev |-> Absent, overlap_with_prev |-> Absent]

\* The turn-metric rows of one episode, in start-time order.
TurnMetricsOf(turns) ==
    [j \in 1..Len(turns) |->
        LET go == GapOverlap(prev_end(turns, j), turns[j].start_time)
        IN [turn_count |-> turns[j].turn_count,
            start_time |-> turns[j].start_time,
            gap_from_prev |-> go.gap_from_prev,
            overlap_with_prev |-> go.overlap_with_prev]]

\* The labels of the turns' speaker column.
SpeakerColumn(turns) == {turns[j].speaker : j \in 1..Len(turns)}

\* speakers_seen: speakers_seen.add(tc) for every turn of the episode.
speakers_seen(turns) == {turns[j].turn_count : j \in 1..Len(turns)}

\* ep_metrics[eid].
EpisodeMetricsOf(turns) ==
    [total_turn_count |-> Len(turns),
     unique_speaker_count |-> Cardinality(speakers_seen(turns))]

\* One partition of build_episode_and_turn_metrics: the read fails (the
\* partition is skipped), or every episode of the partition gets its turn
\* metrics and its episode metrics.
BuildEpisodeAndTurnMetrics(outcome) ==
    /\ "ep_metrics" \in DOMAIN call
    /\ call.pc = "start"
    /\ LET eids == {call.rows[i].episode_id : i \in 1..Len(call.rows)}
       IN call' = IF outcome = "read"
                  THEN [call EXCEPT
                           !.pc = "done",
                           !.turn_metrics = [e \in eids |->
                                                TurnMetricsOf(ep_rows(call.rows, e))],
                           !.ep_metrics = [e \in eids |->
                                              EpisodeMetricsOf(ep_rows(call.rows, e))]]
                  ELSE [call EXCEPT !.pc = "skipped"]
    /\ UNCHANGED callOthers

MetricTimes == {<<0, 1>>, <<0, 2>>, <<1, 2>>, <<2, 0>>}
MetricSpeakers == {"SPEAKER_00", "SPEAKER_01"}

\* Partitions of up to MaxMetricRows turns; turn_count is the turn's number
\* in the file.
MetricPartitions ==
    { [i \in 1..Len(s) |-> MetricRow(s[i][1], s[i][2], s[i][3][1], s[i][3][2], i)] :
        s \in SeqsUpTo({EpisodeId, OtherEpisodeId} \X MetricSpeakers \X MetricTimes,
                       MaxMetricRows) }

InitTurnMetrics ==
    /\ EpisodeFresh
    /\ WindowFresh
    /\ BuilderFresh
    /\ LazyFresh
    /\ CacheFresh
    /\ ConvertFresh
    /\ IngestFresh
    /\ lk = LkStart
    /\ \E rows \in MetricPartitions :
          call = [op |-> "build_episode_and_turn_metrics", pc |-> "start",
                  rows |-> rows, turn_metrics |-> <<>>, ep_metrics |-> <<>>]

NextTurnMetrics == \E outcome \in {"read", "read_raises"} : BuildEpisodeAndTurnMetrics(outcome)

SpecTurnMetrics == InitTurnMetrics /\ [][NextTurnMetrics]_vars

(* ---------------------------------------------------------------------- *)
(* Claims about the phase-2 metrics, under SpecTurnMetrics.                *)
(* ---------------------------------------------------------------------- *)
\* C25: in the turn metrics of every episode, the first turn in start-time
\* order has no gap_from_prev and no overlap_with_prev, and every later turn
\* has gap_from_prev = max(0, start - prev_end) and overlap_with_prev =
\* max(0, prev_end - start), prev_end being the end time of the turn just
\* before it.
C25_GapOverlap ==
    (call.op = "build_episode_and_turn_metrics" /\ call.pc = "done") =>
        \A e \in DOMAIN call.turn_metrics :
            LET turns == ep_rows(call.rows, e)
                tm == call.turn_metrics[e]
            IN \A j \in 1..Len(tm) :
                  IF j = 1
                  THEN tm[j].gap_from_prev = Absent /\ tm[j].overlap_with_prev = Absent
                  ELSE /\ tm[j].gap_from_prev =
                             Given(Max(0, turns[j].start_time - turns[j - 1].end_time))
                       /\ tm[j].overlap_with_prev =
                             Given(Max(0, turns[j - 1].end_time - turns[j].start_time))

\* C26: unique_speaker_count of every episode is the number of distinct
\* speaker labels of the episode's turns.
C26_UniqueSpeakers ==
    (call.op = "build_episode_and_turn_metrics" /\ call.pc = "done") =>
        \A e \in DOMAIN call.ep_metrics :
            call.ep_metrics[e].unique_speaker_count =
                Cardinality(SpeakerColumn(ep_rows(call.rows, e)))

(* ---------------------------------------------------------------------- *)
(* The search connection.   parquet_backend.py: _ensure_search_db,         *)
(* search_turns, search_episodes_by_text.                                  *)
(* handle["search_db"] is _search_db_con (0 for None).  call.fts_loaded    *)
(* says LOAD fts has succeeded on the stored connection.  Whether          *)
(* duckdb.connect and LOAD fts succeed is the environment's choice at each *)
(* call.                                                                   *)
(* ---------------------------------------------------------------------- *)
\* _ensure_search_db: the error it raises, the new value of the handle and
\* of fts_loaded, and whether it went through the initialisation.
ensure_search_db(connect_ok, load_ok) ==
    IF handle["search_db"] # 0
    THEN [raised |-> None, con |-> handle["search_db"],
          fts_loaded |-> call.fts_loaded, initialised |-> FALSE]
    ELSE IF ~call.duckdb
    THEN [raised |-> "ImportError", con |-> 0, fts_loaded |-> FALSE,
          initialised |-> FALSE]
    ELSE IF ~index_file["search_db"]
    THEN [raised |-> "IndexNotBuiltError", con |-> 0, fts_loaded |-> FALSE,
          initialised |-> FALSE]
    ELSE IF ~connect_ok
    THEN \* duckdb.connect raises: nothing is assigned.
         [raised |-> "duckdb.Error", con |-> 0, fts_loaded |-> FALSE,
          initialised |-> TRUE]
    ELSE IF ~load_ok
    THEN \* self._search_db_con is assigned, then execute("LOAD fts") raises.
         [raised |-> "duckdb.Error", con |-> 1, fts_loaded |-> FALSE,
          initialised |-> TRUE]
    ELSE [raised |-> None, con |-> 1, fts_loaded |-> TRUE, initialised |-> TRUE]

\* The query after _ensure_search_db: match_bm25 needs the extension; ILIKE
\* and regexp_matches do not; any other mode is a ValueError.
QueryRaises(mode, fts_loaded) ==
    IF mode \notin SearchModes THEN "ValueError"
    ELSE IF mode = "fts" /\ ~fts_loaded THEN "duckdb.Error"
    ELSE None

\* search_turns / search_episodes_by_text.
SearchDbCall(op, mode, connect_ok, load_ok) ==
    /\ "fts_loaded" \in DOMAIN call
    /\ LET e == ensure_search_db(connect_ok, load_ok)
       IN /\ handle' = [handle EXCEPT !["search_db"] = e.con]
          /\ loads' = loads
          /\ call' = [call EXCEPT
                         !.op = op, !.mode = mode, !.n = 1 - call.n,
                         !.fts_loaded = e.fts_loaded,
                         !.initialised = e.initialised,
                         !.queried = e.raised = None /\ mode \in SearchModes,
                         !.raised = IF e.raised # None THEN e.raised
                                    ELSE QueryRaises(mode, e.fts_loaded)]
    /\ UNCHANGED <<index_file, thread, indexOthers>>

\* python scripts/build_indexes.py --phase 3, run beside the backend.
BuildSearchDb ==
    /\ "fts_loaded" \in DOMAIN call
    /\ BuildIndexesMain("--phase 3")

InitSearchDb ==
    /\ EpisodeFresh
    /\ WindowFresh
    /\ BuilderFresh
    /\ CacheFresh
    /\ ConvertFresh
    /\ IngestFresh
    /\ lk = LkStart
    /\ handle = [r \in Resources |-> 0]
    /\ loads = [r \in Resources |-> 0]
    /\ thread = [t \in Threads |-> ThreadIdle]
    /\ index_file = [r \in IndexFiles |-> FALSE]
    /\ \E duckdb \in BOOLEAN :
          call = [op |-> None, mode |-> None, n |-> 0, raised |-> None,
                  duckdb |-> duckdb, fts_loaded |-> FALSE,
                  initialised |-> FALSE, queried |-> FALSE]

NextSearchDb ==
    \/ \E op \in {"search_turns", "search_episodes_by_text"}, mode \in ModeArgs,
          connect_ok, load_ok \in BOOLEAN : SearchDbCall(op, mode, connect_ok, load_ok)
    \/ BuildSearchDb

SpecSearchDb == InitSearchDb /\ [][NextSearchDb]_vars

(* ---------------------------------------------------------------------- *)
(* Claims about the search connection, under SpecSearchDb.                 *)
(* ---------------------------------------------------------------------- *)
\* C27 as stated: whenever the search-connection handle is set, LOAD fts has
\* succeeded on that connection, and no search call queries a connection on
\* which it has not.
C27_HandleHasFts ==
    /\ handle["search_db"] # 0 => call.fts_loaded
    /\ call.queried => call.fts_loaded

(* ---------------------------------------------------------------------- *)
(* The DataFrames behind pid_to_idx and eid_to_idx.   parquet_backend.py:  *)
(* __init__, _save_cache, _ensure_podcast_df, _ensure_episode_df,          *)
(* _podcast_row_to_dict, _episode_row_to_dict.                             *)
(* The podcast side and the episode side run the same code; one catalog    *)
(* stands for each.  meta_files.content identifies the rows of the catalog *)
(* and their order; call.arrow is the _podcast_df.arrow file and call.df   *)
(* the backend's _podcast_df, each with the catalog content it holds.      *)
(* ---------------------------------------------------------------------- *)
ArrowAbsent == [kind |-> "absent", content |-> 0]
DfNone == [loaded |-> FALSE, content |-> 0]

\* The DataFrame read from the catalog as it is now.
ReadCatalog(files) == [loaded |-> TRUE, content |-> files.content]

\* The feather half of _save_cache: the IPC file is written only for a
\* DataFrame that is not None; the write succeeds, fails before the file is
\* touched, or fails halfway.
SaveFrames(df, file, outcome) ==
    IF ~df.loaded THEN file
    ELSE IF outcome = "written" THEN [kind |-> "ok", content |-> df.content]
    ELSE IF outcome = "unchanged" THEN file
    ELSE [kind |-> "corrupt", content |-> 0]

\* _ensure_podcast_df: the frame already held, else the IPC cache if the
\* file exists (read_feather raises on a damaged file), else the catalog.
EnsureFrame(df, file, files) ==
    IF df.loaded THEN [raised |-> None, df |-> df]
    ELSE IF file.kind = "ok"
    THEN [raised |-> None, df |-> [loaded |-> TRUE, content |-> file.content]]
    ELSE IF file.kind = "corrupt" THEN [raised |-> "ArrowInvalid", df |-> df]
    ELSE [raised |-> None, df |-> ReadCatalog(files)]

\* ParquetBackend(data_dir), with the DataFrames: a cache hit leaves them
\* None; otherwise _build_indexes reads them from the catalogs and
\* _save_cache writes the pickle and then the IPC files, each in its own
\* try / except.
ConstructWithFrames(pickle_outcome, ipc_outcome) ==
    /\ "arrow" \in DOMAIN call
    /\ backend.n < MaxConstructs
    /\ LET loaded == LoadCache(cache_file, meta_files)
       IN  IF loaded = "hit"
           THEN /\ backend' = [n |-> backend.n + 1, maps |-> cache_file.maps,
                               why |-> "hit"]
                /\ call' = [call EXCEPT !.op = "__init__", !.n = 1 - call.n,
                                        !.df = DfNone, !.raised = None,
                                        !.served = FALSE]
                /\ UNCHANGED cache_file
           ELSE /\ backend' = [n |-> backend.n + 1,
                               maps |-> BuildIndexes(meta_files), why |-> loaded]
                /\ cache_file' = SaveCache(BuildIndexes(meta_files), pickle_outcome)
                /\ call' = [call EXCEPT !.op = "__init__", !.n = 1 - call.n,
                                        !.df = ReadCatalog(meta_files),
                                        !.arrow = SaveFrames(ReadCatalog(meta_files),
                                                             call.arrow, ipc_outcome),
                                        !.raised = None, !.served = FALSE]
    /\ UNCHANGED <<meta_files, fp_history, episodeVars, windowVars, builderVars,
                   lazyVars, convertVars, ingestVars, lk>>

\* _podcast_row_to_dict(self._pid_to_idx[pid]): the row at that position of
\* the DataFrame.
PodcastRowToDict ==
    /\ "arrow" \in DOMAIN call
    /\ backend.n > 0
    /\ LET e == EnsureFrame(call.df, call.arrow, meta_files)
       IN call' = [call EXCEPT !.op = "_podcast_row_to_dict", !.n = 1 - call.n,
                               !.df = e.df, !.raised = e.raised,
                               !.served = e.raised = None]
    /\ UNCHANGED <<cacheVars, episodeVars, windowVars, builderVars, lazyVars,
                   convertVars, ingestVars, lk>>

\* The catalog is rewritten beside the backend.
RewriteCatalog(content, stat) ==
    /\ "arrow" \in DOMAIN call
    /\ RewriteMetadata(content, stat)

InitFrames ==
    /\ EpisodeFresh
    /\ WindowFresh
    /\ BuilderFresh
    /\ LazyFresh
    /\ meta_files = [content |-> 0, stat |-> 0]
    /\ cache_file = CacheAbsent
    /\ backend = BackendNone
    /\ fp_history = {<<0, 0>>}
    /\ ConvertFresh
    /\ IngestFresh
    /\ lk = LkStart
    /\ call = [op |-> None, n |-> 0, arrow |-> ArrowAbsent, df |-> DfNone,
               raised |-> None, served |-> FALSE]

NextFrames ==
    \/ \E po, io \in SaveOutcomes : ConstructWithFrames(po, io)
    \/ PodcastRowToDict
    \/ \E c \in 0..MaxContent, st \in 0..MaxStat : RewriteCatalog(c, st)

SpecFrames == InitFrames /\ [][NextFrames]_vars

(* ---------------------------------------------------------------------- *)
(* Claims about the DataFrames, under SpecFrames.                          *)
(* ---------------------------------------------------------------------- *)
\* C28 as stated: whenever the backend serves a row through pid_to_idx or
\* eid_to_idx, the DataFrame it indexes into holds the rows, in the order,
\* of the catalog from which those maps were built.
C28_FrameMatchesMaps ==
    (call.op = "_podcast_row_to_dict" /\ call.served) =>
        backend.maps = BuildIndexes([content |-> call.df.content, stat |-> 0])

(* ---------------------------------------------------------------------- *)
(* Search by category.   convert_to_parquet.py: phase1_metadata (the       *)
(* podcast aggregate), phase3_indexes (category_index.parquet);            *)
(* parquet_backend.py: _build_indexes, search_episodes; dataset.py:        *)
(* search_episodes.  An episode is its podcast and the set of its          *)
(* non-empty category1..category10 values.                                 *)
(* ---------------------------------------------------------------------- *)
\* podcast_agg[pid]["all_categories"]: the categories of all its episodes.
all_categories(episodes, pid) ==
    UNION {episodes[i].categories :
              i \in {j \in 1..Len(episodes) : episodes[j].podcast_id = pid}}

\* _category_to_pids, built from the rows {category, podcast_id} that
\* phase 3 writes for every podcast and every one of its categories.
category_to_pids(episodes) ==
    LET pids == {episodes[i].podcast_id : i \in 1..Len(episodes)}
        cats == UNION {all_categories(episodes, pid) : pid \in pids}
    IN [c \in cats |-> {pid \in pids : c \in all_categories(episodes, pid)}]

\* ParquetBackend.search_episodes(category=): the episodes of the podcasts
\* indexed under a key that contains the category, ignoring case.
BackendCategoryFilter(episodes, index, category) ==
    LET cat == Lower(category)
        matching_pids == UNION {index[c] : c \in {k \in DOMAIN index :
                                                     Contains(Lower(k), cat)}}
        InMatching(ep) == ep.podcast_id \in matching_pids
    IN SelectSeq(episodes, InMatching)

\* SPORCDataset.search_episodes(category=): the episodes one of whose own
\* categories contains the category, ignoring case.
DatasetCategoryFilter(episodes, category) ==
    LET HasCategory(ep) == \E c \in ep.categories : Contains(Lower(c), Lower(category))
    IN SelectSeq(episodes, HasCategory)

SearchEpisodesByCategory(side, category) ==
    /\ "category_to_pids" \in DOMAIN call
    /\ call' = [call EXCEPT
                   !.op = side, !.category = category,
                   !.result = IF side = "ParquetBackend.search_episodes"
                              THEN BackendCategoryFilter(call.episodes,
                                                         call.category_to_pids, category)
                              ELSE DatasetCategoryFilter(call.episodes, category)]
    /\ UNCHANGED callOthers

CategoryEpisodes ==
    {[podcast_id |-> pid, categories |-> cats] :
        pid \in 1..MaxPodcasts, cats \in SUBSET Categories}

InitCategorySearch ==
    /\ EpisodeFresh
    /\ WindowFresh
    /\ BuilderFresh
    /\ LazyFresh
    /\ CacheFresh
    /\ ConvertFresh
    /\ IngestFresh
    /\ lk = LkStart
    /\ \E episodes \in SeqsUpTo(CategoryEpisodes, MaxEpisodes) :
          call = [op |-> None, episodes |-> episodes,
                  category_to_pids |-> category_to_pids(episodes),
                  category |-> <<>>, result |-> <<>>]

NextCategorySearch ==
    \E side \in {"ParquetBackend.search_episodes", "SPORCDataset.search_episodes"},
       category \in CategoryArgs : SearchEpisodesByCategory(side, category)

SpecCategorySearch == InitCategorySearch /\ [][NextCategorySearch]_vars

(* ---------------------------------------------------------------------- *)
(* Claims about the search by category, under SpecCategorySearch.          *)
(* ---------------------------------------------------------------------- *)
\* C29 as stated: every episode that ParquetBackend.search_episodes
\* (category=c) returns has itself a category containing c ignoring case,
\* and the result is the one SPORCDataset.search_episodes(category=c)
\* gives over the same episodes.
C29_CategorySearch ==
    call.op = "ParquetBackend.search_episodes" =>
        /\ \A i \in 1..Len(call.result) :
              \E c \in call.result[i].categories :
                 Contains(Lower(c), Lower(call.category))
        /\ call.result = DatasetCategoryFilter(call.episodes, call.category)

(* ---------------------------------------------------------------------- *)
(* Turns by time range, on turns of any duration.   episode.py:            *)
(* load_turns, get_turns_by_time_range (STRICT and INCLUDE_FULL_TURNS).    *)
(* Turn accepts 0 <= start_time <= end_time, so a turn may have no         *)
(* duration.  call.found keeps, for each behavior, the range of the last   *)
(* call with it and the turns that call returned.                          *)
(* ---------------------------------------------------------------------- *)
\* The range after "if start_time < 0: start_time = 0" and "if end_time >
\* self.duration_seconds: end_time = self.duration_seconds".
ClampRange(start_time, end_time, duration_seconds) ==
    <<IF start_time < 0 THEN 0 ELSE start_time,
      IF end_time > duration_seconds THEN duration_seconds ELSE end_time>>

\* The test of each list comprehension.
InTimeRange(turn, range, behavior) ==
    IF behavior = "STRICT"
    THEN turn.start_time >= range[1] /\ turn.end_time <= range[2]
    ELSE turn.start_time < range[2] /\ turn.end_time > range[1]

\* get_turns_by_time_range(start_time, end_time, behavior) on an episode
\* whose turns are loaded.
GetTurnsByTimeRange(start_time, end_time, behavior) ==
    /\ "found" \in DOMAIN call
    /\ LET range == ClampRange(start_time, end_time, call.duration_seconds)
           Keep(turn) == InTimeRange(turn, range, behavior)
       IN call' = [call EXCEPT
                      !.op = "get_turns_by_time_range",
                      !.found[behavior] = [range |-> Given(<<start_time, end_time>>),
                                           turns |-> SelectSeq(call.turns, Keep)]]
    /\ UNCHANGED callOthers

RangeSpans == {<<0, 0>>, <<0, 1>>, <<0, 2>>, <<1, 1>>, <<1, 2>>, <<2, 2>>}
RangeBehaviors == {"STRICT", "INCLUDE_FULL_TURNS"}

\* load_turns: the turns in the order of their start times.
LoadedRangeTurns ==
    { SortByStart([i \in 1..Len(s) |->
                     [turn_count |-> i, start_time |-> s[i][1], end_time |-> s[i][2]]]) :
        s \in SeqsUpTo(RangeSpans, MaxRangeTurns) }

InitTimeRange ==
    /\ EpisodeFresh
    /\ WindowFresh
    /\ BuilderFresh
    /\ LazyFresh
    /\ CacheFresh
    /\ ConvertFresh
    /\ IngestFresh
    /\ lk = LkStart
    /\ \E turns \in LoadedRangeTurns, duration_seconds \in {1, 2} :
          call = [op |-> None, turns |-> turns, duration_seconds |-> duration_seconds,
                  found |-> [b \in RangeBehaviors |-> [range |-> Absent, turns |-> <<>>]]]

NextTimeRange ==
    \E start_time \in -1..2, end_time \in 0..3, behavior \in RangeBehaviors :
       GetTurnsByTimeRange(start_time, end_time, behavior)

SpecTimeRange == InitTimeRange /\ [][NextTimeRange]_vars

(* ---------------------------------------------------------------------- *)
(* Claims about the time ranges, under SpecTimeRange.                      *)
(* ---------------------------------------------------------------------- *)
\* C30 as stated: for the same time range, every turn returned under
\* STRICT is returned under INCLUDE_FULL_TURNS, zero-duration turns
\* included, and both results keep the episode's turn order.
C30_StrictWithinFull ==
    LET strict == call.found["STRICT"]
        full == call.found["INCLUDE_FULL_TURNS"]
        InStrict(turn) == turn \in Range(strict.turns)
        InFull(turn) == turn \in Range(full.turns)
    IN (call.op = "get_turns_by_time_range"
           /\ strict.range # Absent /\ strict.range = full.range) =>
          /\ Range(strict.turns) \subseteq Range(full.turns)
          /\ strict.turns = SelectSeq(call.turns, InStrict)
          /\ full.turns = SelectSeq(call.turns, InFull)

====
